---- MODULE Spec2Model ----
(***************************************************************************)
(* Model of the MQTT command dispatcher / ack correlator of the IoT        *)
(* backend (services/mqttService.js, the second MQTTService class of       *)
(* src/unnamed/part_000): sendCommand, waitForAck, the waitForAck timeout  *)
(* callback and the acknowledgment branches of handleDeviceResponse.       *)
(*                                                                         *)
(* JavaScript runs each callback to its next await.  Every action below is *)
(* one such run: the synchronous part of a call, or its continuation after *)
(* an awaited db.query settled (fulfilled or rejected).                    *)
(***************************************************************************)
EXTENDS Integers, Sequences, FiniteSets

VARIABLES
    isConnected,      \* MQTTService.isConnected
    commandCounter,   \* MQTTService.commandCounter
    commandObjs,      \* the command objects ever created, by correlation id
    pendingCommands,  \* MQTTService.pendingCommands: its keys in insertion order
    sendCalls,        \* per correlation id: how its sendCommand call stands
    published,        \* payloads handed to client.publish: [topic, id]
    publishRejected,  \* ids whose publish() promise rejected ('not connected')
    device_commands,  \* table device_commands: status of the row of a command
    promises,         \* the promises returned by waitForAck, in call order
    ackHandlers,      \* handleDeviceResponse runs suspended on the UPDATE
    lateResponse,     \* history: a response for a timed-out command was handled
    steps,            \* callbacks run so far
    subscriptions,    \* MQTTService.subscriptions: the topics set to true
    messageHandlers,  \* MQTTService.messageHandlers: [pattern, handler] in insertion order
    subscribeCalls,   \* client.subscribe calls whose callback has not run yet
    subscribeWarned,  \* history: topics of subscribe calls refused as not connected
    issued,           \* history: topics in the order of their first client.subscribe call
    unsubscribeCalls, \* client.unsubscribe calls whose callback has not run yet
    publishCalls,     \* direct publish() calls made so far (message n is call n)
    dispatched,       \* last handleMessage run: its topic and the handlers it invoked
    matchCall,        \* a matchesMqttTopic call: its arguments and what it returned
    handled,          \* last handleDeviceResponse run: payload, branches run, effects
    syncCalls,        \* boards whose syncDeviceConfiguration awaits its SELECT
    esp32_boards,     \* table esp32_boards: the row of each board_id
    registrations,    \* handleRegistration runs suspended on a db.query
    registerAcks,     \* registration acks handed to client.publish
    announces,        \* handleRegistration calls made so far
    registerWarned,   \* history: the warnings handleRegistration logged
    clientEnded,      \* client.end() was called: the client is closed for good
    payloads,         \* per correlation id: the publishPayload sendCommand built
    listCalls,        \* sendDeviceListToESP32 runs suspended on the SELECT
    cmdHandled,       \* history: the messages handleDeviceCommand has handled
    deviceCommandCalls, \* sendDeviceCommand calls: where each stands
    commandRows,      \* table device_commands: status of the rows sendDeviceCommand inserted
    user_tokens,      \* table user_tokens: row n holds the n-th token issued
    authRequests,     \* login and refresh requests suspended on a query
    expiredTokens,    \* tokens whose exp (and expires_at) has passed
    loggedOut,        \* history: tokens whose logout answered 'Logout successful'
    authDecisions,    \* history: what authMiddleware answered, and the row's state then
    devices,          \* table devices: the row of each device_id
    deviceRequests    \* add, update and remove requests: where each stands

\* the topic router's own state
routerVars == <<subscriptions, messageHandlers, subscribeCalls, subscribeWarned,
                issued,
                unsubscribeCalls, publishCalls, dispatched>>

\* the ack correlator's own state
correlatorVars == <<commandCounter, commandObjs, pendingCommands, sendCalls,
                    published, publishRejected, device_commands, promises,
                    ackHandlers, lateResponse>>

\* a call of the topic matcher on its own
matcherVars == <<matchCall>>

\* what the event branches of handleDeviceResponse add to the state
classifierVars == <<handled, syncCalls>>

\* what handleRegistration and autoRegisterDevice add to the state
registryVars == <<esp32_boards, registrations, registerAcks, announces,
                  registerWarned>>

\* the life of the client object, isConnected aside
lifecycleVars == <<clientEnded>>

\* the payload objects sendCommand builds
envelopeVars == <<payloads>>

\* what lies around the dispatcher: locals of its calls and the HTTP side
\* what handleDeviceCommand adds to the state
echoVars == <<listCalls, cmdHandled>>

\* what sendDeviceCommand adds to the state
deviceCommandVars == <<deviceCommandCalls, commandRows>>

\* the token store and the requests that use it
tokenVars == <<user_tokens, authRequests, expiredTokens, loggedOut, authDecisions>>

\* the device endpoints and their table
endpointVars == <<devices, deviceRequests>>

peripheryVars == <<envelopeVars, echoVars, deviceCommandVars, tokenVars,
                   endpointVars>>

\* what the ack correlator's callbacks never touch
outsideCorrelator == <<routerVars, matcherVars, classifierVars, registryVars,
                       lifecycleVars, peripheryVars>>

\* what the router's callbacks never touch, the correlator aside
outsideRouter == <<matcherVars, classifierVars, registryVars, lifecycleVars,
                   peripheryVars>>

\* what a matchesMqttTopic call never touches
outsideMatcher == <<isConnected, correlatorVars, routerVars, classifierVars,
                    registryVars, lifecycleVars, peripheryVars>>

\* what the event branches of handleDeviceResponse never touch, the
\* correlator aside
outsideClassifier == <<routerVars, matcherVars, registryVars, lifecycleVars,
                       peripheryVars>>

\* what handleRegistration never touches, isConnected aside
outsideRegistry == <<correlatorVars, routerVars, matcherVars, classifierVars,
                     lifecycleVars, peripheryVars>>

vars == <<isConnected, commandCounter, commandObjs, pendingCommands, sendCalls,
          published, publishRejected, device_commands, promises, ackHandlers,
          lateResponse, steps, routerVars, matcherVars, classifierVars,
          registryVars, lifecycleVars, peripheryVars>>

----------------------------------------------------------------------------
(* Bounds of the model *)

MaxCommands == 2     \* sendCommand calls in one run
MaxWaits == 2        \* waitForAck calls in one run
MaxInflight == 2     \* explicit-ack handlers suspended on the database at once
MaxSteps == 6        \* callbacks run in one run
MaxPublishes == 2    \* direct publish() calls in one run
MaxLevels == 3       \* levels of a topic or pattern given to the matcher
MaxRegistrations == 2  \* handleRegistration runs suspended at once
MaxAnnounces == 2    \* messages on the register topic in one run
MaxLogins == 2       \* login and refresh requests in one run

----------------------------------------------------------------------------
(* Values *)

Boards == {"board1", "board2"}

\* commandData.pin / commandData.data.gpio_pin; NoPin stands for undefined
\* (and for the NaN that Number(undefined) gives)
NoPin == -1
Pins == {0, 2}

\* undefined expectedAction / absent data.action, data.status, data.type
None == ""

CommandIds == 1..MaxCommands

\* a correlation id that sendCommand never returned
UnknownId == 0

\* arguments of sendCommand as callers pass them: controlDevice sends 'gpio'
\* with {pin, state}, removeDevice sends 'remove_device' with data.device_id
CommandInputs ==
    [commandType : {"gpio"}, device_type : {None}, pin : Pins, device_id : {FALSE}]
    \cup [commandType : {"remove_device"}, device_type : {None}, pin : {NoPin},
          device_id : {TRUE}]

\* parsed payloads on resp/{deviceId}; commandId 0 stands for an absent one
Payloads ==
    [type : {"ack"}, commandId : CommandIds, success : BOOLEAN,
     status : {None}, action : {None}, pin : {NoPin}]
    \cup [type : {None}, commandId : {0}, success : {FALSE},
          status : {"success", "error"}, action : {"gpio", "gpio_config"},
          pin : Pins \cup {NoPin}]

----------------------------------------------------------------------------
(* Helpers *)

\* JavaScript truthiness of a pin value: undefined, NaN and 0 are falsy
Truthy(pin) == pin # NoPin /\ pin # 0

\* Map.prototype.delete on the keys in insertion order
MapDelete(keys, k) == SelectSeq(keys, LAMBDA x : x # k)

InMap(k) == \E i \in DOMAIN pendingCommands : pendingCommands[i] = k

\* resolve(value) of promise p: settles it if it is still unsettled
Settle(ps, p, value) ==
    IF p \in DOMAIN ps /\ ps[p].state = "blocked"
    THEN [ps EXCEPT ![p].state = IF value THEN "true" ELSE "false"]
    ELSE ps

\* removal of the i-th element of a sequence
RemoveAt(s, i) == [j \in 1..(Len(s) - 1) |-> IF j < i THEN s[j] ELSE s[j + 1]]

\* a column value is a sequence: <<>> is SQL NULL (and a JavaScript null
\* passed as a query parameter), <<v>> the string v, <<"cmd", b>> the topic
\* cmd/b
Null == <<>>

\* COALESCE(a, b)
Coalesce(a, b) == IF a # Null THEN a ELSE b

\* no row of esp32_boards for a board_id
NoRow == [user_id |-> 0, mac_address |-> Null, name |-> Null, location |-> Null,
          mqtt_topic_cmd |-> Null, mqtt_topic_resp |-> Null]

\* no matchesMqttTopic call made yet
NoCall == [pattern |-> <<>>, topic |-> <<>>, result |-> FALSE]

\* the devices the endpoints are asked about: board1_GPIO2 is in the table,
\* board1_GPIO0 is not
EndpointDevices == {"board1_GPIO2", "board1_GPIO0"}

\* no row of devices for a device_id
NoDevice == [present |-> FALSE, is_enabled |-> FALSE, name |-> None]

\* table devices at the start: one enabled switch on pin 2 of board1
InitialDevices ==
    [d \in EndpointDevices |->
        IF d = "board1_GPIO2"
        THEN [present |-> TRUE, is_enabled |-> TRUE, name |-> "lamp"]
        ELSE NoDevice]

----------------------------------------------------------------------------
Init ==
    /\ isConnected = FALSE
    /\ commandCounter = 0
    /\ commandObjs = <<>>
    /\ pendingCommands = <<>>
    /\ sendCalls = <<>>
    /\ published = {}
    /\ publishRejected = {}
    /\ device_commands = <<>>
    /\ promises = <<>>
    /\ ackHandlers = <<>>
    /\ lateResponse = FALSE
    /\ steps = 0
    /\ subscriptions = {}
    /\ messageHandlers = <<>>
    /\ subscribeCalls = {}
    /\ subscribeWarned = {}
    /\ issued = <<>>
    /\ unsubscribeCalls = {}
    /\ publishCalls = 0
    /\ dispatched = [topic |-> <<>>, invoked |-> <<>>]
    /\ matchCall = NoCall
    /\ handled = <<>>
    /\ syncCalls = {}
    /\ esp32_boards = [b \in Boards |-> NoRow]
    /\ registrations = <<>>
    /\ registerAcks = {}
    /\ announces = 0
    /\ registerWarned = {}
    /\ clientEnded = FALSE
    /\ payloads = <<>>
    /\ listCalls = <<>>
    /\ cmdHandled = {}
    /\ deviceCommandCalls = <<>>
    /\ commandRows = <<>>
    /\ user_tokens = <<>>
    /\ authRequests = <<>>
    /\ expiredTokens = {}
    /\ loggedOut = {}
    /\ authDecisions = {}
    /\ devices = InitialDevices
    /\ deviceRequests = <<>>

\* one callback at a time runs to its next await (the event loop)
Tick == steps < MaxSteps /\ steps' = steps + 1

----------------------------------------------------------------------------
(* sendCommand *)

\* expectedAction as sendCommand derives it from commandType and device_type
ExpectedAction(commandType, device_type) ==
    IF commandType = "add_device"
    THEN IF device_type \in {"switch", "dimmer"} THEN "gpio_config"
         ELSE IF device_type \in {"sensor_dht22", "sensor_ds18b20", "sensor_analog"}
              THEN "sensor_config"
              ELSE None
    ELSE IF commandType = "gpio" THEN "gpio" ELSE None

\* expectedPin: commandData.data.gpio_pin (add_device), Number(commandData.pin) (gpio)
ExpectedPin(commandType, pin) ==
    IF commandType \in {"add_device", "gpio"} THEN pin ELSE NoPin

\* whether sendCommand inserts a device_commands row before publishing
RecordsRow(commandType, device_id) == device_id /\ commandType # "add_device"

\* mutant of Publish: no connection check, the client takes every message
PublishUnchecked(boardId, id) ==
    /\ published' = published \cup {[topic |-> <<"cmd", boardId>>, id |-> id]}
    /\ UNCHANGED publishRejected

\* publish(topic, payload): rejects when not connected, else hands the payload
\* to the transport.  sendCommand does not await the promise it returns.
Publish(boardId, id) ==
    IF isConnected
    THEN /\ published' = published \cup {[topic |-> <<"cmd", boardId>>, id |-> id]}
         /\ UNCHANGED publishRejected
    ELSE /\ publishRejected' = publishRejected \cup {id}
         /\ UNCHANGED published

\* the body of sendCommand up to its first await (or, with no row to insert,
\* to its return)
SendCommandCall(boardId, in) ==
    LET id == commandCounter + 1 IN
    /\ commandCounter' = id
    /\ commandObjs' = Append(commandObjs,
           [boardId |-> boardId, commandType |-> in.commandType,
            status |-> "pending", resolve |-> 0,
            expectedAction |-> ExpectedAction(in.commandType, in.device_type),
            expectedPin |-> ExpectedPin(in.commandType, in.pin)])
    /\ pendingCommands' = Append(pendingCommands, id)
    /\ device_commands' = Append(device_commands, "none")
    /\ IF RecordsRow(in.commandType, in.device_id)
       THEN /\ sendCalls' = Append(sendCalls, "awaitDb")
            /\ UNCHANGED <<published, publishRejected>>
       ELSE /\ sendCalls' = Append(sendCalls, "returned")
            /\ Publish(boardId, id)

\* sendCommand(boardId, commandType, commandData) called by a controller
SendCommand(boardId, in) ==
    /\ Tick
    /\ commandCounter < MaxCommands
    /\ SendCommandCall(boardId, in)
    /\ UNCHANGED <<isConnected, promises, ackHandlers, lateResponse>>
    /\ UNCHANGED outsideCorrelator

\* the INSERT INTO device_commands succeeded: publish and return the id
SendCommandDbOk(id) ==
    /\ Tick
    /\ id \in DOMAIN sendCalls
    /\ sendCalls[id] = "awaitDb"
    /\ device_commands' = [device_commands EXCEPT ![id] = "sent"]
    /\ Publish(commandObjs[id].boardId, id)
    /\ sendCalls' = [sendCalls EXCEPT ![id] = "returned"]
    /\ UNCHANGED <<isConnected, commandCounter, commandObjs, pendingCommands,
                   promises, ackHandlers, lateResponse>>
    /\ UNCHANGED outsideCorrelator

\* the INSERT failed: sendCommand rethrows; the entry stays in pendingCommands
SendCommandDbFail(id) ==
    /\ Tick
    /\ id \in DOMAIN sendCalls
    /\ sendCalls[id] = "awaitDb"
    /\ sendCalls' = [sendCalls EXCEPT ![id] = "threw"]
    /\ UNCHANGED <<isConnected, commandCounter, commandObjs, pendingCommands,
                   published, publishRejected, device_commands, promises,
                   ackHandlers, lateResponse>>
    /\ UNCHANGED outsideCorrelator

----------------------------------------------------------------------------
(* waitForAck and its timeout *)

\* mutant of WaitForAck: an id that is not in the map is waited for as well
WaitForAckAnyId(commandId) ==
    /\ Tick
    /\ Len(promises) < MaxWaits
    /\ \/ commandId = UnknownId
       \/ commandId \in DOMAIN sendCalls /\ sendCalls[commandId] = "returned"
    /\ promises' = Append(promises,
           [cmd |-> commandId, state |-> "blocked", timer |-> "armed"])
    /\ commandObjs' = IF commandId \in DOMAIN commandObjs
                      THEN [commandObjs EXCEPT ![commandId].resolve = Len(promises')]
                      ELSE commandObjs
    /\ UNCHANGED <<isConnected, commandCounter, pendingCommands, sendCalls,
                   published, publishRejected, device_commands, ackHandlers,
                   lateResponse>>
    /\ UNCHANGED outsideCorrelator

\* waitForAck(commandId, timeoutMs): the promise executor.  A caller passes an
\* id that sendCommand returned to it, or one the service never issued.
WaitForAck(commandId) ==
    /\ Tick
    /\ Len(promises) < MaxWaits
    /\ \/ commandId = UnknownId
       \/ commandId \in DOMAIN sendCalls /\ sendCalls[commandId] = "returned"
    /\ LET p == Len(promises) + 1 IN
       IF ~InMap(commandId)
       THEN /\ promises' = Append(promises,
                   [cmd |-> commandId, state |-> "false", timer |-> "none"])
            /\ UNCHANGED commandObjs
       ELSE /\ commandObjs' = [commandObjs EXCEPT ![commandId].resolve = p]
            /\ promises' = Append(promises,
                   [cmd |-> commandId, state |-> "blocked", timer |-> "armed"])
    /\ UNCHANGED <<isConnected, commandCounter, pendingCommands, sendCalls,
                   published, publishRejected, device_commands, ackHandlers,
                   lateResponse>>
    /\ UNCHANGED outsideCorrelator

\* mutant of TimeoutFire: resolves the waiter but leaves the entry in the map
TimeoutFireKeepsEntry(p) ==
    /\ Tick
    /\ p \in DOMAIN promises
    /\ promises[p].timer = "armed"
    /\ LET c == promises[p].cmd IN
       IF InMap(c) /\ commandObjs[c].status = "pending"
       THEN promises' = [Settle(promises, p, FALSE) EXCEPT ![p].timer = "timedout"]
       ELSE promises' = [promises EXCEPT ![p].timer = "lapsed"]
    /\ UNCHANGED <<isConnected, commandCounter, commandObjs, pendingCommands,
                   sendCalls, published, publishRejected, device_commands,
                   ackHandlers, lateResponse>>
    /\ UNCHANGED outsideCorrelator

\* the setTimeout callback of the waitForAck call that returned promise p
TimeoutFire(p) ==
    /\ Tick
    /\ p \in DOMAIN promises
    /\ promises[p].timer = "armed"
    /\ LET c == promises[p].cmd IN
       IF InMap(c) /\ commandObjs[c].status = "pending"
       THEN /\ pendingCommands' = MapDelete(pendingCommands, c)
            /\ promises' = [Settle(promises, p, FALSE) EXCEPT ![p].timer = "timedout"]
       ELSE /\ promises' = [promises EXCEPT ![p].timer = "lapsed"]
            /\ UNCHANGED pendingCommands
    /\ UNCHANGED <<isConnected, commandCounter, commandObjs, sendCalls, published,
                   publishRejected, device_commands, ackHandlers, lateResponse>>
    /\ UNCHANGED outsideCorrelator

----------------------------------------------------------------------------
(* handleDeviceResponse: the acknowledgment branches *)

\* data.type === 'ack' && data.commandId
IsExplicitAck(data) == data.type = "ack" /\ data.commandId # 0

\* data.status && data.action (reached only when the explicit branch is not)
IsFirmwareResponse(data) ==
    ~IsExplicitAck(data) /\ data.status # None /\ data.action # None

\* actionMatches && pinMatches of the scan, for a pending entry of the board
HeuristicMatches(pending, deviceId, data) ==
    /\ pending.boardId = deviceId
    /\ (pending.expectedAction = None \/ pending.expectedAction = data.action)
    /\ (~Truthy(pending.expectedPin)
          \/ (data.pin # NoPin /\ data.pin = pending.expectedPin))

\* positions of pendingCommands (in iteration order) whose entry matches
MatchingPositions(deviceId, data) ==
    {i \in DOMAIN pendingCommands :
        HeuristicMatches(commandObjs[pendingCommands[i]], deviceId, data)}

\* the commands whose waitForAck timeout removed them from the map
TimedOutIds == {promises[p].cmd : p \in {q \in DOMAIN promises :
                                            promises[q].timer = "timedout"}}

\* the response names command c by id, or by c's board, action and pin
ResponseNames(c, deviceId, data) ==
    \/ IsExplicitAck(data) /\ data.commandId = c
    \/ /\ IsFirmwareResponse(data)
       /\ commandObjs[c].boardId = deviceId
       /\ commandObjs[c].expectedAction = data.action
       /\ commandObjs[c].expectedPin = data.pin

\* explicit ack branch up to its await of the UPDATE
ExplicitAckBranch(data) ==
    IF InMap(data.commandId)
    THEN /\ Len(ackHandlers) < MaxInflight
         /\ commandObjs' = [commandObjs EXCEPT ![data.commandId].status =
                               IF data.success THEN "acknowledged" ELSE "failed"]
         /\ ackHandlers' = Append(ackHandlers,
                [commandId |-> data.commandId, success |-> data.success])
         /\ UNCHANGED <<pendingCommands, promises>>
    ELSE UNCHANGED <<commandObjs, pendingCommands, promises, ackHandlers>>

\* mutant of FirmwareBranch: the scan has no break, the last matching entry
\* is the one resolved
FirmwareBranchLast(deviceId, data) ==
    LET hits == MatchingPositions(deviceId, data) IN
    IF hits = {}
    THEN UNCHANGED <<commandObjs, pendingCommands, promises, ackHandlers>>
    ELSE LET i == CHOOSE k \in hits : \A m \in hits : k >= m
             pendingId == pendingCommands[i]
         IN /\ commandObjs' = [commandObjs EXCEPT ![pendingId].status =
                   IF data.status = "success" THEN "acknowledged" ELSE "failed"]
            /\ promises' = Settle(promises, commandObjs[pendingId].resolve,
                                  data.status = "success")
            /\ pendingCommands' = MapDelete(pendingCommands, pendingId)
            /\ UNCHANGED ackHandlers

\* firmware (status/action) branch: resolve the first matching entry, then break
FirmwareBranch(deviceId, data) ==
    LET hits == MatchingPositions(deviceId, data) IN
    IF hits = {}
    THEN UNCHANGED <<commandObjs, pendingCommands, promises, ackHandlers>>
    ELSE LET i == CHOOSE k \in hits : \A m \in hits : k <= m
             pendingId == pendingCommands[i]
         IN /\ commandObjs' = [commandObjs EXCEPT ![pendingId].status =
                   IF data.status = "success" THEN "acknowledged" ELSE "failed"]
            /\ promises' = Settle(promises, commandObjs[pendingId].resolve,
                                  data.status = "success")
            /\ pendingCommands' = MapDelete(pendingCommands, pendingId)
            /\ UNCHANGED ackHandlers

\* what a device can put in a payload: an explicit ack names an id the device
\* was sent, or one the service never issued (an id carries its send time)
DeviceCanSend(data) ==
    IsExplicitAck(data) =>
        \/ data.commandId > commandCounter
        \/ \E m \in published : m.id = data.commandId

\* handleDeviceResponse(deviceId, topic, message) for a parsed payload; the
\* client emits 'message' only while the connection is up
HandleDeviceResponse(deviceId, data) ==
    /\ Tick
    /\ isConnected
    /\ DeviceCanSend(data)
    /\ IF IsExplicitAck(data) THEN ExplicitAckBranch(data)
       ELSE IF IsFirmwareResponse(data) THEN FirmwareBranch(deviceId, data)
       ELSE UNCHANGED <<commandObjs, pendingCommands, promises, ackHandlers>>
    /\ lateResponse' = (lateResponse
                          \/ \E c \in TimedOutIds : ResponseNames(c, deviceId, data))
    /\ UNCHANGED <<isConnected, commandCounter, sendCalls, published,
                   publishRejected, device_commands>>
    /\ UNCHANGED outsideCorrelator

\* the UPDATE of handler i succeeded: resolve the waiter, delete the entry
AckDbOk(i) ==
    /\ Tick
    /\ i \in DOMAIN ackHandlers
    /\ LET h == ackHandlers[i]
           command == commandObjs[h.commandId]
       IN /\ device_commands' =
                IF device_commands[h.commandId] = "none" THEN device_commands
                ELSE [device_commands EXCEPT ![h.commandId] =
                         IF h.success THEN "acknowledged" ELSE "failed"]
          /\ promises' = Settle(promises, command.resolve, h.success)
          /\ pendingCommands' = MapDelete(pendingCommands, h.commandId)
    /\ ackHandlers' = RemoveAt(ackHandlers, i)
    /\ UNCHANGED <<isConnected, commandCounter, commandObjs, sendCalls, published,
                   publishRejected, lateResponse>>
    /\ UNCHANGED outsideCorrelator

\* the UPDATE of handler i failed: the outer catch logs, nothing else runs
AckDbFail(i) ==
    /\ Tick
    /\ i \in DOMAIN ackHandlers
    /\ ackHandlers' = RemoveAt(ackHandlers, i)
    /\ UNCHANGED <<isConnected, commandCounter, commandObjs, pendingCommands,
                   sendCalls, published, publishRejected, device_commands,
                   promises, lateResponse>>
    /\ UNCHANGED outsideCorrelator

----------------------------------------------------------------------------
(* transport events *)

\* the subscribe calls of the 'connect' handler: subscribeToDeviceTopics and
\* subscribe('register', ...)
ConnectSubscriptions ==
    {[topic |-> <<"resp", "+">>, handler |-> "handleDeviceResponse"],
     [topic |-> <<"cmd", "+">>, handler |-> "handleDeviceCommand"],
     [topic |-> <<"register">>, handler |-> "handleRegistration"]}

\* the topics of the 'connect' handler's subscribe calls, in the order of the
\* calls: resp/+, cmd/+ (subscribeToDeviceTopics), then register
ConnectOrder == <<<<"resp", "+">>, <<"cmd", "+">>, <<"register">>>>

\* the order in which topics were first handed to client.subscribe
Issue(order, topic) ==
    IF \E i \in DOMAIN order : order[i] = topic THEN order
    ELSE Append(order, topic)

RECURSIVE IssueAll(_, _)
\* Issue for each topic of a sequence, in its order
IssueAll(order, topics) ==
    IF topics = <<>> THEN order
    ELSE IssueAll(Issue(order, Head(topics)), Tail(topics))

\* mutant of OnConnect: the connect handler only sets the flag
OnConnectNoSubscribe ==
    /\ Tick
    /\ isConnected' = TRUE
    /\ UNCHANGED <<correlatorVars, subscriptions, messageHandlers, subscribeCalls,
                   subscribeWarned, publishCalls, dispatched>>
    /\ UNCHANGED <<unsubscribeCalls, issued>>
    /\ UNCHANGED outsideRouter

\* client.on('connect'): isConnected is set before the three subscribe calls,
\* so each of them reaches client.subscribe.  A client that was ended
\* neither reconnects nor emits 'connect'.
OnConnect ==
    /\ Tick
    /\ ~clientEnded
    /\ isConnected' = TRUE
    /\ subscribeCalls' = subscribeCalls \cup ConnectSubscriptions
    /\ issued' = IssueAll(issued, ConnectOrder)
    /\ UNCHANGED <<correlatorVars, subscriptions, messageHandlers,
                   subscribeWarned, publishCalls, dispatched>>
    /\ UNCHANGED unsubscribeCalls
    /\ UNCHANGED outsideRouter

\* mutant of OnClose: the command counter starts again at every close
OnCloseResetsCounter ==
    /\ Tick
    /\ isConnected' = FALSE
    /\ commandCounter' = 0
    /\ UNCHANGED <<commandObjs, pendingCommands, sendCalls,
                   published, publishRejected, device_commands, promises,
                   ackHandlers, lateResponse>>
    /\ UNCHANGED outsideCorrelator

\* client.on('close'), client.on('error'), client.on('offline')
OnClose ==
    /\ Tick
    /\ isConnected' = FALSE
    /\ UNCHANGED <<commandCounter, commandObjs, pendingCommands, sendCalls,
                   published, publishRejected, device_commands, promises,
                   ackHandlers, lateResponse>>
    /\ UNCHANGED outsideCorrelator

\* mutant of Disconnect: the client is ended and the flag is left to the
\* 'close' event
DisconnectLeavesFlag ==
    /\ Tick
    /\ clientEnded' = TRUE
    /\ UNCHANGED <<isConnected, correlatorVars, routerVars, matcherVars,
                   classifierVars, registryVars, peripheryVars>>

\* disconnect(): client.end() and isConnected = false (initialize() has
\* created the client)
Disconnect ==
    /\ Tick
    /\ clientEnded' = TRUE
    /\ isConnected' = FALSE
    /\ UNCHANGED <<correlatorVars, routerVars, matcherVars, classifierVars,
                   registryVars, peripheryVars>>

----------------------------------------------------------------------------
(* subscribe, publish and the dispatch of inbound messages *)

\* mutant of MapSet: every set adds an entry
MapSetAppends(entries, pattern, handler) ==
    Append(entries, [pattern |-> pattern, handler |-> handler])

\* Map.prototype.set on [pattern, handler] entries in insertion order: a key
\* already present keeps its position and takes the new value
MapSet(entries, pattern, handler) ==
    IF \E i \in DOMAIN entries : entries[i].pattern = pattern
    THEN [i \in DOMAIN entries |->
             IF entries[i].pattern = pattern
             THEN [pattern |-> pattern, handler |-> handler]
             ELSE entries[i]]
    ELSE Append(entries, [pattern |-> pattern, handler |-> handler])

\* subscribe(topic, handler): returns at once when not connected, else asks
\* the client; the maps are written by the callback
Subscribe(topic, handler) ==
    /\ Tick
    /\ IF ~isConnected
       THEN /\ subscribeWarned' = subscribeWarned \cup {topic}
            /\ UNCHANGED <<subscribeCalls, issued>>
       ELSE /\ subscribeCalls' =
                   subscribeCalls \cup {[topic |-> topic, handler |-> handler]}
            /\ issued' = Issue(issued, topic)
            /\ UNCHANGED subscribeWarned
    /\ UNCHANGED <<isConnected, correlatorVars, subscriptions, messageHandlers,
                   publishCalls, dispatched>>
    /\ UNCHANGED unsubscribeCalls
    /\ UNCHANGED outsideRouter

\* the callback of client.subscribe, with or without an error
SubscribeCallback(call, err) ==
    /\ Tick
    /\ call \in subscribeCalls
    /\ subscribeCalls' = subscribeCalls \ {call}
    /\ IF err
       THEN UNCHANGED <<subscriptions, messageHandlers>>
       ELSE /\ subscriptions' = subscriptions \cup {call.topic}
            /\ messageHandlers' =
                   IF call.handler # None
                   THEN MapSet(messageHandlers, call.topic, call.handler)
                   ELSE messageHandlers
    /\ UNCHANGED <<isConnected, correlatorVars, subscribeWarned, publishCalls,
                   dispatched>>
    /\ UNCHANGED <<unsubscribeCalls, issued>>
    /\ UNCHANGED outsideRouter

\* unsubscribe(topic): returns at once when not connected, else asks the
\* client; the maps are written by the callback
Unsubscribe(topic) ==
    /\ Tick
    /\ unsubscribeCalls' = IF isConnected THEN unsubscribeCalls \cup {topic}
                           ELSE unsubscribeCalls
    /\ UNCHANGED <<isConnected, correlatorVars, subscriptions, messageHandlers,
                   subscribeCalls, subscribeWarned, publishCalls, dispatched>>
    /\ UNCHANGED issued
    /\ UNCHANGED outsideRouter

\* mutant of UnsubscribeCallback: the entries are deleted whether or not the
\* client reports an error
UnsubscribeCallbackIgnoresError(topic, err) ==
    /\ Tick
    /\ topic \in unsubscribeCalls
    /\ unsubscribeCalls' = unsubscribeCalls \ {topic}
    /\ subscriptions' = subscriptions \ {topic}
    /\ messageHandlers' = SelectSeq(messageHandlers, LAMBDA e : e.pattern # topic)
    /\ UNCHANGED <<isConnected, correlatorVars, subscribeCalls, subscribeWarned,
                   publishCalls, dispatched>>
    /\ UNCHANGED issued
    /\ UNCHANGED outsideRouter

\* the callback of client.unsubscribe, with or without an error:
\* subscriptions.delete(topic) and messageHandlers.delete(topic)
UnsubscribeCallback(topic, err) ==
    /\ Tick
    /\ topic \in unsubscribeCalls
    /\ unsubscribeCalls' = unsubscribeCalls \ {topic}
    /\ IF err
       THEN UNCHANGED <<subscriptions, messageHandlers>>
       ELSE /\ subscriptions' = subscriptions \ {topic}
            /\ messageHandlers' =
                   SelectSeq(messageHandlers, LAMBDA e : e.pattern # topic)
    /\ UNCHANGED <<isConnected, correlatorVars, subscribeCalls, subscribeWarned,
                   publishCalls, dispatched>>
    /\ UNCHANGED issued
    /\ UNCHANGED outsideRouter

\* the id of the message of the n-th direct publish() call (commands count up)
MessageId(n) == 0 - n

\* a caller other than sendCommand publishes to cmd/{boardId}
\* (handleRegistration's ack, sendDeviceListToESP32)
PublishMessage(boardId) ==
    /\ Tick
    /\ publishCalls < MaxPublishes
    /\ publishCalls' = publishCalls + 1
    /\ Publish(boardId, MessageId(publishCalls + 1))
    /\ UNCHANGED <<isConnected, commandCounter, commandObjs, pendingCommands,
                   sendCalls, device_commands, promises, ackHandlers, lateResponse,
                   subscriptions, messageHandlers, subscribeCalls,
                   subscribeWarned, dispatched>>
    /\ UNCHANGED <<unsubscribeCalls, issued>>
    /\ UNCHANGED outsideRouter

RECURSIVE MatchLevelsHashNeedsLevel(_, _, _)
\* mutant of MatchLevels: '#' is tested after the end of the topic, so it
\* needs a topic level of its own
MatchLevelsHashNeedsLevel(patternLevels, topicLevels, i) ==
    IF i > Len(patternLevels)
    THEN \/ Len(topicLevels) = Len(patternLevels)
         \/ patternLevels[Len(patternLevels)] = "#"
    ELSE IF i > Len(topicLevels) THEN FALSE
    ELSE IF patternLevels[i] = "#" THEN TRUE
    ELSE IF patternLevels[i] = "+"
         THEN MatchLevelsHashNeedsLevel(patternLevels, topicLevels, i + 1)
    ELSE IF patternLevels[i] # topicLevels[i] THEN FALSE
    ELSE MatchLevelsHashNeedsLevel(patternLevels, topicLevels, i + 1)

RECURSIVE MatchLevels(_, _, _)
\* the for loop of matchesMqttTopic from level i on (i and j advance together)
MatchLevels(patternLevels, topicLevels, i) ==
    IF i > Len(patternLevels)
    THEN \/ Len(topicLevels) = Len(patternLevels)
         \/ patternLevels[Len(patternLevels)] = "#"
    ELSE IF patternLevels[i] = "#" THEN TRUE
    ELSE IF i > Len(topicLevels) THEN FALSE
    ELSE IF patternLevels[i] = "+" THEN MatchLevels(patternLevels, topicLevels, i + 1)
    ELSE IF patternLevels[i] # topicLevels[i] THEN FALSE
    ELSE MatchLevels(patternLevels, topicLevels, i + 1)

\* mutant of MatchesMqttTopic: level by level, '#' taken as a literal
MatchesMqttTopicNoHash(pattern, topic) ==
    /\ Len(pattern) = Len(topic)
    /\ \A i \in DOMAIN pattern : pattern[i] \in {"+", topic[i]}

\* matchesMqttTopic(pattern, topic); a topic string is the sequence of its
\* '/'-separated levels, the empty string is the one empty level
MatchesMqttTopic(pattern, topic) ==
    IF pattern = <<"">> THEN FALSE
    ELSE IF pattern = topic THEN TRUE
    ELSE MatchLevels(pattern, topic, 1)

\* mutant of Dispatch: no return after a handler was invoked
DispatchAll(topic) ==
    [i \in 1..Len(SelectSeq(messageHandlers,
                    LAMBDA e : e.pattern = topic \/ MatchesMqttTopic(e.pattern, topic)))
        |-> SelectSeq(messageHandlers,
                LAMBDA e : e.pattern = topic
                              \/ MatchesMqttTopic(e.pattern, topic))[i].handler]

\* the handlers handleMessage invokes for a topic, in order: the exact one
\* and return, else the first entry whose pattern matches and return
Dispatch(topic) ==
    LET exact == SelectSeq(messageHandlers, LAMBDA e : e.pattern = topic)
        wild == SelectSeq(messageHandlers,
                          LAMBDA e : MatchesMqttTopic(e.pattern, topic))
    IN IF exact # <<>> THEN <<exact[1].handler>>
       ELSE IF wild # <<>> THEN <<wild[1].handler>>
       ELSE <<>>

\* handleMessage(topic, message); the client emits 'message' only while the
\* connection is up
HandleMessage(topic) ==
    /\ Tick
    /\ isConnected
    /\ dispatched' = [topic |-> topic, invoked |-> Dispatch(topic)]
    /\ UNCHANGED <<isConnected, correlatorVars, subscriptions, messageHandlers,
                   subscribeCalls, subscribeWarned, publishCalls>>
    /\ UNCHANGED <<unsubscribeCalls, issued>>
    /\ UNCHANGED outsideRouter

----------------------------------------------------------------------------
Next ==
    \/ \E b \in Boards, in \in CommandInputs : SendCommand(b, in)
    \/ \E id \in CommandIds : SendCommandDbOk(id)
    \/ \E id \in CommandIds : SendCommandDbFail(id)
    \/ \E c \in CommandIds \cup {UnknownId} : WaitForAck(c)
    \/ \E p \in 1..MaxWaits : TimeoutFire(p)
    \/ \E b \in Boards, d \in Payloads : HandleDeviceResponse(b, d)
    \/ \E i \in 1..MaxInflight : AckDbOk(i)
    \/ \E i \in 1..MaxInflight : AckDbFail(i)
    \/ OnConnect
    \/ OnClose

Spec == Init /\ [][Next]_vars

\* subscribe calls of other callers: a device's own response topic, the
\* same topic again with another handler and without one, and a
\* multi-level pattern
SubscribeInputs ==
    {[topic |-> <<"resp", "board1">>, handler |-> "h1"],
     [topic |-> <<"resp", "board1">>, handler |-> "h3"],
     [topic |-> <<"resp", "board1">>, handler |-> None],
     [topic |-> <<"resp", "#">>, handler |-> "h2"]}

\* topics unsubscribe is called with
UnsubscribeInputs == {<<"resp", "board1">>, <<"resp", "+">>}

\* topics of inbound messages
InboundTopics ==
    {<<"resp", "board1">>, <<"resp", "board2">>, <<"cmd", "board2">>,
     <<"register">>, <<"resp", "board1", "extra">>}

\* the topic router on its own: connection events, subscribe, publish, dispatch
RouterNext ==
    \/ OnConnect
    \/ OnClose
    \/ \E in \in SubscribeInputs : Subscribe(in.topic, in.handler)
    \/ \E call \in ConnectSubscriptions \cup SubscribeInputs, err \in BOOLEAN :
          SubscribeCallback(call, err)
    \/ \E t \in UnsubscribeInputs : Unsubscribe(t)
    \/ \E t \in UnsubscribeInputs, err \in BOOLEAN : UnsubscribeCallback(t, err)
    \/ \E b \in Boards : PublishMessage(b)
    \/ \E t \in InboundTopics : HandleMessage(t)

RouterSpec == Init /\ [][RouterNext]_vars

\* the connection's life: transport events, the terminal close, and the
\* callers that publish
LifecycleNext ==
    \/ OnConnect
    \/ OnClose
    \/ Disconnect
    \/ \E b \in Boards : PublishMessage(b)
    \/ \E b \in Boards, in \in CommandInputs : SendCommand(b, in)
    \/ \E id \in CommandIds : SendCommandDbOk(id)

LifecycleSpec == Init /\ [][LifecycleNext]_vars

----------------------------------------------------------------------------
(* the topic matcher as a function of its arguments *)

\* the sequences over a set of levels with 1..n levels
RECURSIVE LevelSeqs(_, _)
LevelSeqs(levels, n) ==
    IF n = 0 THEN {}
    ELSE LET shorter == LevelSeqs(levels, n - 1) IN
         {<<l>> : l \in levels} \cup shorter
            \cup {Append(q, l) : q \in shorter, l \in levels}

\* levels of subscription patterns and of topic names
PatternLevels == {"resp", "cmd", "+", "#"}
TopicLevels == {"resp", "cmd", "ESP32_1", "extra", "x", "y"}

Patterns == LevelSeqs(PatternLevels, MaxLevels)
Topics == LevelSeqs(TopicLevels, MaxLevels)

\* one call matchesMqttTopic(pattern, topic), for any pattern and topic
MatchesMqttTopicCall ==
    /\ Tick
    /\ matchCall = NoCall
    /\ \E pattern \in Patterns, topic \in Topics :
          matchCall' = [pattern |-> pattern, topic |-> topic,
                        result |-> MatchesMqttTopic(pattern, topic)]
    /\ UNCHANGED outsideMatcher

MatcherNext == MatchesMqttTopicCall

MatcherSpec == Init /\ [][MatcherNext]_vars

----------------------------------------------------------------------------
(* handleDeviceResponse as a whole: the parse, the acknowledgment branches *)
(* and the event branches keyed on data.type                              *)

\* values of data.type the handler tests for, and one it does not know
EventTypes == {None, "ack", "gpio_change", "heartbeat", "status", "sensor",
               "state", "device_sync", "error", "other"}

\* a parsed payload with the fields the handler reads
Payload(type, commandId, status, action, pin) ==
    [json |-> TRUE, type |-> type, commandId |-> commandId, success |-> TRUE,
     status |-> status, action |-> action, pin |-> pin]

\* messages on resp/{deviceId}: one that is not JSON; a payload of every
\* type with no other field; a gpio_change with its pin; an explicit ack for
\* the first command and one, carrying status and action as well, for an id
\* never issued; payloads with status and action, without a type and as a
\* heartbeat
Messages ==
    {[json |-> FALSE, type |-> None, commandId |-> 0, success |-> FALSE,
      status |-> None, action |-> None, pin |-> NoPin]}
    \cup {Payload(t, 0, None, None, NoPin) : t \in EventTypes}
    \cup {Payload("gpio_change", 0, None, None, 2),
          Payload("ack", 1, None, None, NoPin),
          Payload("ack", MaxCommands + 1, "success", "gpio", 2),
          Payload(None, 0, "success", "gpio", 2),
          Payload("heartbeat", 0, "success", "gpio", 2)}

\* the branch among the type tests after the acknowledgment branches that
\* the payload enters; each of them returns
EventBranch(data) ==
    IF data.type = "gpio_change" /\ data.pin # NoPin THEN "gpio_change"
    ELSE IF data.type \in {"heartbeat", "status"} THEN "heartbeat"
    ELSE IF data.type = "sensor" THEN "sensor"
    ELSE IF data.type = "state" THEN "state"
    ELSE IF data.type = "device_sync" THEN "device_sync"
    ELSE IF data.type = "error" THEN "error"
    ELSE None

\* what a branch does besides logging; deviceExists is the outcome of its
\* SELECT ... FROM devices
BranchEffects(branch, deviceExists) ==
    IF branch = "gpio_change"
    THEN {"updateDeviceState", "broadcastDeviceUpdate"}
            \cup (IF deviceExists THEN {"device_data.state"} ELSE {})
    ELSE IF branch = "heartbeat"
    THEN {"updateBoardStatus"}
            \cup (IF deviceExists THEN {"device_data.heartbeat"} ELSE {})
    ELSE IF branch = "sensor" THEN {"device_data.sensor"}
    ELSE IF branch = "state" THEN {"updateDeviceState", "device_data.state"}
    ELSE IF branch = "device_sync" THEN {"syncDeviceConfiguration"}
    ELSE IF branch = "error" THEN {"device_data.error"}
    ELSE {}

\* the branches a parsed payload runs through, in order
BranchesRun(data) ==
    IF IsExplicitAck(data) THEN <<"ack">>
    ELSE (IF IsFirmwareResponse(data) THEN <<"firmware">> ELSE <<>>)
            \o (IF EventBranch(data) # None THEN <<EventBranch(data)>> ELSE <<>>)

\* mutant of HandleDeviceMessage: an explicit ack that finds no entry does not
\* return but goes on to the status/action scan and the type tests
HandleDeviceMessageAckFallsThrough(deviceId, message, deviceExists) ==
    LET hit == IsExplicitAck(message) /\ InMap(message.commandId)
        scan == message.status # None /\ message.action # None
    IN
    /\ Tick
    /\ isConnected
    /\ DeviceCanSend(message)
    /\ message.json
    /\ IF hit THEN ExplicitAckBranch(message)
       ELSE IF scan THEN FirmwareBranch(deviceId, message)
       ELSE UNCHANGED <<commandObjs, pendingCommands, promises, ackHandlers>>
    /\ handled' = <<[message |-> message,
                     branches |-> IF hit THEN <<"ack">>
                                  ELSE IF scan THEN <<"firmware">> ELSE <<>>,
                     effects |-> {}]>>
    /\ UNCHANGED <<isConnected, commandCounter, sendCalls, published,
                   publishRejected, device_commands, lateResponse, syncCalls>>
    /\ UNCHANGED outsideClassifier

\* handleDeviceResponse(deviceId, topic, message) for any message: a message
\* that is not JSON is logged and dropped; an explicit ack returns; the
\* firmware branch falls through to the type tests
HandleDeviceMessage(deviceId, message, deviceExists) ==
    /\ Tick
    /\ isConnected
    /\ DeviceCanSend(message)
    /\ IF ~message.json
       THEN /\ handled' = <<[message |-> message,
                            branches |-> <<>>, effects |-> {}]>>
            /\ UNCHANGED <<commandObjs, pendingCommands, promises, ackHandlers,
                           syncCalls>>
       ELSE /\ IF IsExplicitAck(message) THEN ExplicitAckBranch(message)
               ELSE IF IsFirmwareResponse(message)
                    THEN FirmwareBranch(deviceId, message)
                    ELSE UNCHANGED <<commandObjs, pendingCommands, promises,
                                     ackHandlers>>
            /\ handled' = <<[message |-> message,
                            branches |-> BranchesRun(message),
                            effects |-> IF IsExplicitAck(message) THEN {}
                                        ELSE BranchEffects(EventBranch(message),
                                                           deviceExists)]>>
            /\ syncCalls' = IF ~IsExplicitAck(message)
                                  /\ EventBranch(message) = "device_sync"
                            THEN syncCalls \cup {deviceId}
                            ELSE syncCalls
    /\ lateResponse' = (lateResponse
                          \/ \E c \in TimedOutIds : ResponseNames(c, deviceId, message))
    /\ UNCHANGED <<isConnected, commandCounter, sendCalls, published,
                   publishRejected, device_commands>>
    /\ UNCHANGED outsideClassifier

\* syncDeviceConfiguration after its SELECT: sendCommand(boardId,
\* 'sync_devices', {cmd, data: {devices}}), which inserts no row
SyncDeviceConfiguration(boardId) ==
    /\ Tick
    /\ boardId \in syncCalls
    /\ commandCounter < MaxCommands
    /\ syncCalls' = syncCalls \ {boardId}
    /\ SendCommandCall(boardId, [commandType |-> "sync_devices",
                                 device_type |-> None, pin |-> NoPin,
                                 device_id |-> FALSE])
    /\ UNCHANGED <<isConnected, promises, ackHandlers, lateResponse, handled>>
    /\ UNCHANGED outsideClassifier

\* the outcomes of the SELECT ... FROM devices of the branch a message enters
DeviceRows(message) ==
    IF EventBranch(message) \in {"gpio_change", "heartbeat"} THEN BOOLEAN
    ELSE {FALSE}

\* controlDevice's command: 'gpio' for pin 2
GpioCommand ==
    [commandType |-> "gpio", device_type |-> None, pin |-> 2, device_id |-> FALSE]

\* the device response handler with the commands it can resolve
ClassifierNext ==
    \/ OnConnect
    \/ \E b \in Boards : SendCommand(b, GpioCommand)
    \/ \E c \in CommandIds : WaitForAck(c)
    \/ \E p \in 1..MaxWaits : TimeoutFire(p)
    \/ \E i \in 1..MaxInflight : AckDbOk(i)
    \/ \E i \in 1..MaxInflight : AckDbFail(i)
    \/ \E b \in Boards, m \in Messages :
          \E e \in DeviceRows(m) : HandleDeviceMessage(b, m, e)
    \/ \E b \in Boards : SyncDeviceConfiguration(b)

ClassifierSpec == Init /\ [][ClassifierNext]_vars

\* the same with what the runtime guarantees: an armed timer fires, an
\* awaited db.query settles.  Nothing makes a board answer, a caller call, or
\* the connection change.
ClassifierFairSpec ==
    /\ ClassifierSpec
    /\ WF_vars(\E p \in 1..MaxWaits : TimeoutFire(p))
    /\ WF_vars(\E i \in 1..MaxInflight : AckDbOk(i) \/ AckDbFail(i))
    /\ WF_vars(\E b \in Boards : SyncDeviceConfiguration(b))

----------------------------------------------------------------------------
(* Board registration: handleRegistration and autoRegisterDevice *)

\* table users: the id of the row with a short_id, an email or an id; 0 when
\* the SELECT returns no row
UserByShortId(shortId) ==
    IF shortId = "s1" THEN 1 ELSE IF shortId = "s2" THEN 2 ELSE 0

UserByEmail(email) == IF email = "u2@x" THEN 2 ELSE 0

UserById(id) == IF id \in {1, 2} THEN id ELSE 0

\* mutant of ResolveUser: the email is looked up before the shortId
ResolveUserEmailFirst(data) ==
    IF data.userEmail # None /\ UserByEmail(data.userEmail) # 0
    THEN UserByEmail(data.userEmail)
    ELSE IF data.shortId # None /\ UserByShortId(data.shortId) # 0
    THEN UserByShortId(data.shortId)
    ELSE IF data.userId # 0 THEN UserById(data.userId)
    ELSE 0

\* the three lookups of autoRegisterDevice: shortId, else userEmail, else
\* userId; 0 when users.length === 0 after all of them
ResolveUser(data) ==
    IF data.shortId # None /\ UserByShortId(data.shortId) # 0
    THEN UserByShortId(data.shortId)
    ELSE IF data.userEmail # None /\ UserByEmail(data.userEmail) # 0
    THEN UserByEmail(data.userEmail)
    ELSE IF data.userId # 0 THEN UserById(data.userId)
    ELSE 0

\* the users queries autoRegisterDevice issues, in order: by short_id when
\* data.shortId is set, by email when no row was found yet and
\* data.userEmail is set, by id when no row was found yet and data.userId
\* is set
LookupsIssued(data) ==
    LET byShortId == data.shortId # None /\ UserByShortId(data.shortId) # 0
        byEmail == data.userEmail # None /\ UserByEmail(data.userEmail) # 0
    IN (IF data.shortId # None THEN <<"short_id">> ELSE <<>>)
       \o (IF ~byShortId /\ data.userEmail # None THEN <<"email">> ELSE <<>>)
       \o (IF ~byShortId /\ ~byEmail /\ data.userId # 0 THEN <<"id">> ELSE <<>>)

\* a registration message: parsed fields of the announce payload; mac is
\* data.details?.mac || data.mac, None when the board sent neither
Announce(deviceId, shortId, userEmail, mac, deviceName, replyTopic) ==
    [json |-> TRUE, deviceId |-> deviceId, shortId |-> shortId,
     userEmail |-> userEmail, userId |-> 0, mac |-> mac,
     deviceName |-> deviceName, deviceLocation |-> None,
     replyTopic |-> replyTopic]

\* messages on the register topic: boards announcing themselves without and
\* with a MAC, under one account and another, an unknown shortId with
\* nothing else, a second board with the MAC of the first and an unknown
\* shortId but a known email, a known shortId with the email of another
\* account, an unknown shortId and email with a known userId, and messages
\* handleRegistration refuses (no shortId, no deviceId, not JSON)
RegistrationInputs ==
    {Announce("board1", "s1", None, None, None, None),
     Announce("board1", "s1", None, "m1", None, None),
     Announce("board1", "s2", None, "m2", "lamp", <<"reply", "board1">>),
     Announce("board1", "sX", None, "m1", None, None),
     Announce("board2", "sX", "u2@x", "m1", None, None),
     Announce("board2", "s1", "u2@x", None, None, None),
     [Announce("board1", "sX", "nobody@x", None, None, None) EXCEPT !.userId = 1],
     Announce("board1", None, None, "m1", None, None),
     Announce(None, "s1", None, "m1", None, None),
     [Announce(None, None, None, None, None, None) EXCEPT !.json = FALSE]}

\* the values autoRegisterDevice computes from the announce payload
AnnouncedMac(data) == IF data.mac # None THEN <<data.mac>> ELSE Null

AnnouncedName(data) ==
    IF data.deviceName # None THEN <<data.deviceName>>
    ELSE <<"ESP32", data.deviceId>>

AnnouncedLocation(data) ==
    IF data.deviceLocation # None THEN <<data.deviceLocation>> ELSE <<"">>

TopicCmd(boardId) == <<"cmd", boardId>>

TopicResp(boardId) == <<"resp", boardId>>

\* the UNIQUE key on mac_address: another row holds the value
MacTaken(boardId, mac) ==
    mac # Null /\ \E b \in Boards \ {boardId} : esp32_boards[b].mac_address = mac

\* mutant of RegistrationAck: data.replyTopic is ignored
RegistrationAckToCmd(data, ok) ==
    IF isConnected
    THEN {[topic |-> TopicCmd(data.deviceId),
           action |-> "registered",
           status |-> IF ok THEN "success" ELSE "failed",
           user_short_id |-> data.shortId,
           error |-> IF ok THEN None ELSE "link_failed"]}
    ELSE {}

\* the ack handleRegistration builds and the topic it publishes it on;
\* publish() rejects when the client is not connected and hands over nothing
RegistrationAck(data, ok) ==
    IF isConnected
    THEN {[topic |-> IF data.replyTopic # None THEN data.replyTopic
                     ELSE TopicCmd(data.deviceId),
           action |-> "registered",
           status |-> IF ok THEN "success" ELSE "failed",
           user_short_id |-> data.shortId,
           error |-> IF ok THEN None ELSE "link_failed"]}
    ELSE {}

\* mutant of HandleRegistration: a parsed payload goes to
\* autoRegisterDevice whatever fields it has
HandleRegistrationNoFieldCheck(data) ==
    /\ announces < MaxAnnounces
    /\ announces' = announces + 1
    /\ isConnected
    /\ IF ~data.json
       THEN /\ registerWarned' = registerWarned \cup {"invalid_json"}
            /\ UNCHANGED registrations
       ELSE /\ Len(registrations) < MaxRegistrations
            /\ registrations' = Append(registrations,
                                       [data |-> data, pc |-> "users",
                                        lookups |-> <<>>, userId |-> 0,
                                        existingBoard |-> NoRow])
            /\ UNCHANGED registerWarned
    /\ UNCHANGED <<isConnected, steps, esp32_boards, registerAcks>>
    /\ UNCHANGED outsideRegistry

\* handleRegistration(topic, message) up to the first query of
\* autoRegisterDevice: invalid JSON and a missing deviceId or shortId return
HandleRegistration(data) ==
    /\ announces < MaxAnnounces
    /\ announces' = announces + 1
    /\ isConnected
    /\ IF ~data.json
       THEN /\ registerWarned' = registerWarned \cup {"invalid_json"}
            /\ UNCHANGED registrations
       ELSE IF data.deviceId = None \/ data.shortId = None
       THEN /\ registerWarned' = registerWarned \cup {"missing_fields"}
            /\ UNCHANGED registrations
       ELSE /\ Len(registrations) < MaxRegistrations
            /\ registrations' = Append(registrations,
                                       [data |-> data, pc |-> "users",
                                        lookups |-> <<>>, userId |-> 0,
                                        existingBoard |-> NoRow])
            /\ UNCHANGED registerWarned
    /\ UNCHANGED <<isConnected, steps, esp32_boards, registerAcks>>
    /\ UNCHANGED outsideRegistry

\* mutant of RegisterUsersDone: the SELECT of the board's row is sent
\* whether or not a user was found
RegisterUsersDoneNoAccountCheck(i) ==
    /\ i \in DOMAIN registrations
    /\ registrations[i].pc = "users"
    /\ registrations' = [registrations EXCEPT
                             ![i].pc = "select",
                             ![i].lookups = LookupsIssued(registrations[i].data),
                             ![i].userId = ResolveUser(registrations[i].data)]
    /\ UNCHANGED <<isConnected, steps, esp32_boards, registerAcks, announces,
                   registerWarned>>
    /\ UNCHANGED outsideRegistry

\* autoRegisterDevice after its user lookups: no user returns false, and
\* handleRegistration publishes the failed ack; else the SELECT of the
\* board's row is sent
RegisterUsersDone(i) ==
    /\ i \in DOMAIN registrations
    /\ registrations[i].pc = "users"
    /\ LET data == registrations[i].data
           userId == ResolveUser(data)
       IN IF userId = 0
          THEN /\ registrations' = RemoveAt(registrations, i)
               /\ registerAcks' = registerAcks \cup RegistrationAck(data, FALSE)
          ELSE /\ registrations' = [registrations EXCEPT
                                        ![i].pc = "select",
                                        ![i].lookups = LookupsIssued(data),
                                        ![i].userId = userId]
               /\ UNCHANGED registerAcks
    /\ UNCHANGED <<isConnected, steps, esp32_boards, announces, registerWarned>>
    /\ UNCHANGED outsideRegistry

\* the SELECT * FROM esp32_boards WHERE board_id = ? returns: the INSERT or
\* the UPDATE is sent with the values computed from this row
RegisterSelectDone(i) ==
    /\ i \in DOMAIN registrations
    /\ registrations[i].pc = "select"
    /\ registrations' =
          [registrations EXCEPT
              ![i].pc = "write",
              ![i].existingBoard = esp32_boards[registrations[i].data.deviceId]]
    /\ UNCHANGED <<isConnected, steps, esp32_boards, registerAcks, announces,
                   registerWarned>>
    /\ UNCHANGED outsideRegistry

\* the row the INSERT creates
InsertedRow(data, userId) ==
    [user_id |-> userId, mac_address |-> AnnouncedMac(data),
     name |-> AnnouncedName(data), location |-> AnnouncedLocation(data),
     mqtt_topic_cmd |-> TopicCmd(data.deviceId),
     mqtt_topic_resp |-> TopicResp(data.deviceId)]

\* the row the UPDATE leaves: user_id = ?, mac_address = COALESCE(?,
\* mac_address), name = COALESCE(?, name), location = COALESCE(?, location),
\* mqtt_topic_cmd = COALESCE(mqtt_topic_cmd, ?), mqtt_topic_resp likewise
UpdatedRow(row, data, updatedUserId) ==
    [user_id |-> updatedUserId,
     mac_address |-> Coalesce(AnnouncedMac(data), row.mac_address),
     name |-> Coalesce(AnnouncedName(data), row.name),
     location |-> Coalesce(AnnouncedLocation(data), row.location),
     mqtt_topic_cmd |-> Coalesce(row.mqtt_topic_cmd, TopicCmd(data.deviceId)),
     mqtt_topic_resp |-> Coalesce(row.mqtt_topic_resp, TopicResp(data.deviceId))]

\* existingBoard.user_id || userId
UpdatedUserId(existingBoard, userId) ==
    IF existingBoard.user_id # 0 THEN existingBoard.user_id ELSE userId

\* the INSERT or UPDATE settles and handleRegistration publishes its ack.
\* The INSERT is rejected when the board_id or the MAC is already in the
\* table, the UPDATE when another row has the MAC; a rejected query is
\* caught and autoRegisterDevice returns false.
RegisterWriteDone(i) ==
    /\ i \in DOMAIN registrations
    /\ registrations[i].pc = "write"
    /\ LET r == registrations[i]
           b == r.data.deviceId
           row == esp32_boards[b]
           insert == r.existingBoard = NoRow
           ok == /\ ~MacTaken(b, AnnouncedMac(r.data))
                 /\ insert => row = NoRow
       IN /\ esp32_boards' =
                IF ~ok \/ (~insert /\ row = NoRow) THEN esp32_boards
                ELSE IF insert
                THEN [esp32_boards EXCEPT ![b] = InsertedRow(r.data, r.userId)]
                ELSE [esp32_boards EXCEPT
                         ![b] = UpdatedRow(row, r.data,
                                           UpdatedUserId(r.existingBoard, r.userId))]
          /\ registerAcks' = registerAcks \cup RegistrationAck(r.data, ok)
    /\ registrations' = RemoveAt(registrations, i)
    /\ UNCHANGED <<isConnected, steps, announces, registerWarned>>
    /\ UNCHANGED outsideRegistry

\* the registration handler with the connection it replies over; a run is
\* bounded by the messages on the register topic, each of which is followed
\* by at most three continuations
RegistrationNext ==
    \/ OnConnect
    \/ OnClose
    \/ \E data \in RegistrationInputs : HandleRegistration(data)
    \/ \E i \in 1..MaxRegistrations : RegisterUsersDone(i)
    \/ \E i \in 1..MaxRegistrations : RegisterSelectDone(i)
    \/ \E i \in 1..MaxRegistrations : RegisterWriteDone(i)

RegistrationSpec == Init /\ [][RegistrationNext]_vars

\* client.on('message') for a message on the register topic: handleMessage
\* finds the handler recorded for register, which calls handleRegistration
RegisterMessage(data) ==
    /\ Dispatch(<<"register">>) = <<"handleRegistration">>
    /\ HandleRegistration(data)

\* announces of board1 under a known and under an unknown shortId
DeliveryInputs ==
    {data \in RegistrationInputs :
        /\ data.json
        /\ data.deviceId = "board1"
        /\ data.shortId \in {"s1", "sX"}
        /\ data.userEmail = None}

\* topics the boards publish their responses on
ResponseTopics == {<<"resp", b>> : b \in Boards}

\* registration together with the router: the connect-time subscriptions
\* and their callbacks, announces arriving on register, and responses
\* arriving on resp/{deviceId}
DeliveryNext ==
    \/ OnConnect
    \/ OnClose
    \/ \E call \in ConnectSubscriptions, err \in BOOLEAN :
          SubscribeCallback(call, err)
    \/ \E data \in DeliveryInputs : RegisterMessage(data)
    \/ \E i \in 1..MaxRegistrations : RegisterUsersDone(i)
    \/ \E i \in 1..MaxRegistrations : RegisterSelectDone(i)
    \/ \E i \in 1..MaxRegistrations : RegisterWriteDone(i)
    \/ \E t \in ResponseTopics : HandleMessage(t)

DeliverySpec == Init /\ [][DeliveryNext]_vars

----------------------------------------------------------------------------
(* sendCommand's payload: the message envelope and the firmware payloads *)

\* commandData.id when the caller's object has no id field
NoId == 0

\* an id field a caller's commandData carries
CallerId == 0 - 1

\* commandData as sendCommand reads it: its own id and pin, and
\* data.device_type, data.gpio_pin, data.device_id
CommandData(id, pin, device_type, gpio_pin, device_id) ==
    [id |-> id, pin |-> pin, device_type |-> device_type, gpio_pin |-> gpio_pin,
     device_id |-> device_id]

\* calls of sendCommand: controlDevice and the timer service send 'gpio' with
\* {pin, state} and 'pwm' with {pin, value}; addDevice sends 'add_device'
\* with data.device_type and data.gpio_pin; removeDevice sends
\* 'remove_device' with data.device_id; a caller whose gpio commandData has
\* an id field of its own
EnvelopeInputs ==
    {[commandType |-> "gpio", commandData |-> CommandData(NoId, 2, None, NoPin, FALSE)],
     [commandType |-> "gpio", commandData |-> CommandData(CallerId, 2, None, NoPin, FALSE)],
     [commandType |-> "pwm", commandData |-> CommandData(NoId, 2, None, NoPin, FALSE)],
     [commandType |-> "pwm", commandData |-> CommandData(CallerId, 2, None, NoPin, FALSE)],
     [commandType |-> "add_device",
      commandData |-> CommandData(NoId, NoPin, "switch", 2, TRUE)],
     [commandType |-> "add_device",
      commandData |-> CommandData(CallerId, NoPin, "sensor_dht22", 2, TRUE)],
     [commandType |-> "add_device",
      commandData |-> CommandData(NoId, NoPin, "relay", 2, TRUE)],
     [commandType |-> "remove_device",
      commandData |-> CommandData(NoId, NoPin, None, NoPin, TRUE)]}

\* publishPayload: the envelope {id, type, data, timestamp} by default, the
\* firmware payload {id, action, cmd, pin, type, name} for an add_device of a
\* known device type, and {id, action: 'gpio', ...commandData} for gpio,
\* where the fields of commandData are written after id and action
PublishPayload(commandId, commandType, commandData) ==
    IF commandType = "add_device"
          /\ ExpectedAction(commandType, commandData.device_type) # None
    THEN [id |-> commandId,
          action |-> ExpectedAction(commandType, commandData.device_type),
          pin |-> commandData.gpio_pin, envelope |-> FALSE]
    ELSE IF commandType = "gpio"
    THEN [id |-> IF commandData.id # NoId THEN commandData.id ELSE commandId,
          action |-> "gpio", pin |-> commandData.pin, envelope |-> FALSE]
    ELSE [id |-> commandId, action |-> None, pin |-> NoPin, envelope |-> TRUE]

\* the arguments of a call as SendCommandCall takes them
AsCommandInput(commandType, commandData) ==
    [commandType |-> commandType, device_type |-> commandData.device_type,
     pin |-> IF commandType = "add_device" THEN commandData.gpio_pin
             ELSE commandData.pin,
     device_id |-> commandData.device_id]

\* sendCommand(boardId, commandType, commandData) with the payload it builds
\* before it registers the command
SendCommandPayload(boardId, commandType, commandData) ==
    /\ Tick
    /\ commandCounter < MaxCommands
    /\ payloads' = Append(payloads,
           PublishPayload(commandCounter + 1, commandType, commandData))
    /\ SendCommandCall(boardId, AsCommandInput(commandType, commandData))
    /\ UNCHANGED <<isConnected, promises, ackHandlers, lateResponse>>
    /\ UNCHANGED <<routerVars, matcherVars, classifierVars, registryVars,
                   lifecycleVars, echoVars, deviceCommandVars, tokenVars,
                   endpointVars>>

\* sendCommand for every kind of command, with the connection going up and
\* down and the INSERT settling either way
EnvelopeNext ==
    \/ OnConnect
    \/ OnClose
    \/ \E b \in Boards, in \in EnvelopeInputs :
          SendCommandPayload(b, in.commandType, in.commandData)
    \/ \E id \in CommandIds : SendCommandDbOk(id)
    \/ \E id \in CommandIds : SendCommandDbFail(id)

EnvelopeSpec == Init /\ [][EnvelopeNext]_vars

----------------------------------------------------------------------------
(* handleDeviceCommand: messages on cmd/{deviceId}, the service's own among them *)

\* data.action of the messages boards publish on cmd/{deviceId}: the two
\* the switch knows and one it does not
BoardActions == {"device_sync", "device_request", "status_report"}

\* data.action of the payloads the service itself publishes on
\* cmd/{deviceId}: sendCommand's envelope has none, its firmware payloads
\* have gpio, gpio_config or sensor_config; the registration ack has
\* registered; sendDeviceListToESP32 sends device_list_response
OwnActions == {None, "gpio", "gpio_config", "sensor_config", "registered",
               "device_list_response"}

\* the actions of the payloads handed to the transport for cmd/{deviceId}:
\* commands (positive ids), device lists (direct publishes) and
\* registration acks
OwnOnWire(deviceId) ==
    {payloads[m.id].action :
        m \in {x \in published : x.topic = <<"cmd", deviceId>> /\ x.id > 0}}
    \cup {"device_list_response" :
             m \in {x \in published : x.topic = <<"cmd", deviceId>> /\ x.id < 0}}
    \cup {a.action : a \in {x \in registerAcks : x.topic = TopicCmd(deviceId)}}

\* mutant of HandleDeviceCommand: the default case of the switch answers
\* with the device list as well
HandleDeviceCommandAnswersAll(deviceId, action) ==
    /\ Tick
    /\ isConnected
    /\ cmdHandled' = cmdHandled \cup {[deviceId |-> deviceId, action |-> action]}
    /\ Len(listCalls) + publishCalls < MaxPublishes
    /\ listCalls' = Append(listCalls, [deviceId |-> deviceId, action |-> action])
    /\ UNCHANGED <<isConnected, correlatorVars, routerVars, matcherVars,
                   classifierVars, registryVars, lifecycleVars, envelopeVars,
                   deviceCommandVars, tokenVars, endpointVars>>

\* handleDeviceCommand(deviceId, topic, message) for a parsed payload:
\* device_sync saves the devices of the payload and device_request saves
\* nothing, then both call sendDeviceListToESP32, which awaits its SELECT;
\* any other action is logged
HandleDeviceCommand(deviceId, action) ==
    /\ Tick
    /\ isConnected
    /\ cmdHandled' = cmdHandled \cup {[deviceId |-> deviceId, action |-> action]}
    /\ IF action \in {"device_sync", "device_request"}
       THEN /\ Len(listCalls) + publishCalls < MaxPublishes
            /\ listCalls' = Append(listCalls,
                                   [deviceId |-> deviceId, action |-> action])
       ELSE UNCHANGED listCalls
    /\ UNCHANGED <<isConnected, correlatorVars, routerVars, matcherVars,
                   classifierVars, registryVars, lifecycleVars, envelopeVars,
                   deviceCommandVars, tokenVars, endpointVars>>

\* client.on('message') for a message on cmd/{deviceId}: handleMessage finds
\* the handler recorded for cmd/+, which calls handleDeviceCommand
CmdMessage(deviceId, action) ==
    /\ Dispatch(<<"cmd", deviceId>>) = <<"handleDeviceCommand">>
    /\ HandleDeviceCommand(deviceId, action)

\* a board publishes on cmd/{deviceId}
BoardCommand(deviceId, action) == CmdMessage(deviceId, action)

\* the broker delivers a payload the service published on cmd/{deviceId}
\* back to it, through its cmd/+ subscription
OwnCommandEcho(deviceId, action) ==
    /\ action \in OwnOnWire(deviceId)
    /\ [deviceId |-> deviceId, action |-> action] \notin cmdHandled
    /\ CmdMessage(deviceId, action)

\* sendDeviceListToESP32 after its SELECT: publish(cmd/{deviceId}, response),
\* awaited, its rejection caught and logged
DeviceListSelectDone(i) ==
    /\ Tick
    /\ i \in DOMAIN listCalls
    /\ listCalls' = RemoveAt(listCalls, i)
    /\ publishCalls' = publishCalls + 1
    /\ Publish(listCalls[i].deviceId, MessageId(publishCalls + 1))
    /\ UNCHANGED <<isConnected, commandCounter, commandObjs, pendingCommands,
                   sendCalls, device_commands, promises, ackHandlers, lateResponse,
                   subscriptions, messageHandlers, subscribeCalls,
                   subscribeWarned, issued, unsubscribeCalls, dispatched,
                   cmdHandled>>
    /\ UNCHANGED <<matcherVars, classifierVars, registryVars, lifecycleVars,
                   envelopeVars, deviceCommandVars, tokenVars,
                   endpointVars>>

\* one sendCommand call for each payload shape: gpio, the two firmware
\* payloads of add_device, and the envelope (add_device of another type)
EchoInputs ==
    {in \in EnvelopeInputs :
        /\ in.commandType \in {"gpio", "add_device"}
        /\ in.commandType = "gpio" => in.commandData.id = NoId}

\* the announce of board1 whose ack goes to cmd/board1
EchoAnnounce == CHOOSE data \in DeliveryInputs : data.shortId = "s1" /\ data.mac = None

\* the service with its cmd/+ subscription: every publisher on
\* cmd/{deviceId} (one sendCommand call, one registration ack, the device
\* lists), the boards' own messages, and the service's payloads coming back
EchoNext ==
    \/ OnConnect
    \/ \E call \in ConnectSubscriptions : SubscribeCallback(call, FALSE)
    \/ /\ commandCounter = 0
       /\ \E in \in EchoInputs :
             SendCommandPayload("board1", in.commandType, in.commandData)
    \/ announces = 0 /\ RegisterMessage(EchoAnnounce)
    \/ \E i \in 1..MaxRegistrations : RegisterUsersDone(i)
    \/ \E i \in 1..MaxRegistrations : RegisterSelectDone(i)
    \/ \E i \in 1..MaxRegistrations : RegisterWriteDone(i)
    \/ \E a \in BoardActions : BoardCommand("board1", a)
    \/ \E a \in OwnActions : OwnCommandEcho("board1", a)
    \/ \E i \in 1..MaxInflight : DeviceListSelectDone(i)

EchoSpec == Init /\ [][EchoNext]_vars

----------------------------------------------------------------------------
(* sendDeviceCommand: SELECT, INSERT, awaited publish, UPDATE *)

\* table devices as the SELECT of sendDeviceCommand sees it: dev1 has a
\* command topic, dev2 has a row without one, devX has no row
DeviceIds == {"dev1", "dev2", "devX"}

DeviceHasRow(deviceId) == deviceId \in {"dev1", "dev2"}

DeviceTopicCmd(deviceId) == IF deviceId = "dev1" THEN <<"cmd", "board1">> ELSE Null

\* the call of a sendDeviceCommand at its start
NewDeviceCommandCall(deviceId) ==
    [deviceId |-> deviceId, pc |-> "select", commandId |-> 0, handed |-> FALSE,
     confirmed |-> FALSE, error |-> None]

\* sendDeviceCommand(deviceId, command) up to its SELECT
SendDeviceCommand(deviceId) ==
    /\ Tick
    /\ Len(deviceCommandCalls) < MaxCommands
    /\ deviceCommandCalls' = Append(deviceCommandCalls, NewDeviceCommandCall(deviceId))
    /\ UNCHANGED <<isConnected, commandRows>>
    /\ UNCHANGED <<correlatorVars, routerVars, matcherVars, classifierVars,
                   registryVars, lifecycleVars, envelopeVars, echoVars, tokenVars,
                   endpointVars>>

\* the SELECT settled: no row and no topic throw, else the INSERT is issued;
\* a rejected query is rethrown as well
DeviceCommandSelectDone(i, ok) ==
    /\ Tick
    /\ i \in DOMAIN deviceCommandCalls
    /\ deviceCommandCalls[i].pc = "select"
    /\ LET call == deviceCommandCalls[i] IN
       deviceCommandCalls' = [deviceCommandCalls EXCEPT ![i] =
           IF ~ok THEN [call EXCEPT !.pc = "threw", !.error = "db"]
           ELSE IF ~DeviceHasRow(call.deviceId)
           THEN [call EXCEPT !.pc = "threw", !.error = "Device not found"]
           ELSE IF DeviceTopicCmd(call.deviceId) = Null
           THEN [call EXCEPT !.pc = "threw",
                             !.error = "Device command topic not configured"]
           ELSE [call EXCEPT !.pc = "insert"]]
    /\ UNCHANGED <<isConnected, commandRows>>
    /\ UNCHANGED <<correlatorVars, routerVars, matcherVars, classifierVars,
                   registryVars, lifecycleVars, envelopeVars, echoVars, tokenVars,
                   endpointVars>>

\* mutant of DeviceCommandInsertDone: the row is marked sent as the payload
\* is handed to the client, the publish is not awaited
DeviceCommandInsertDoneNoAwait(i, ok) ==
    /\ Tick
    /\ i \in DOMAIN deviceCommandCalls
    /\ deviceCommandCalls[i].pc = "insert"
    /\ LET call == deviceCommandCalls[i]
           commandId == Len(commandRows) + 1
       IN IF ~ok
          THEN /\ deviceCommandCalls' = [deviceCommandCalls EXCEPT ![i] =
                      [call EXCEPT !.pc = "threw", !.error = "db"]]
               /\ UNCHANGED commandRows
          ELSE /\ commandRows' = Append(commandRows, "sent")
               /\ deviceCommandCalls' = [deviceCommandCalls EXCEPT ![i] =
                      [call EXCEPT !.commandId = commandId, !.pc = "publish",
                                   !.handed = TRUE]]
    /\ UNCHANGED isConnected
    /\ UNCHANGED <<correlatorVars, routerVars, matcherVars, classifierVars,
                   registryVars, lifecycleVars, envelopeVars, echoVars, tokenVars,
                   endpointVars>>

\* the INSERT settled: the row is there with status 'pending' and
\* publish() runs: it rejects at once when not connected, else it hands the
\* payload to client.publish and the call awaits the callback
DeviceCommandInsertDone(i, ok) ==
    /\ Tick
    /\ i \in DOMAIN deviceCommandCalls
    /\ deviceCommandCalls[i].pc = "insert"
    /\ LET call == deviceCommandCalls[i]
           commandId == Len(commandRows) + 1
       IN IF ~ok
          THEN /\ deviceCommandCalls' = [deviceCommandCalls EXCEPT ![i] =
                      [call EXCEPT !.pc = "threw", !.error = "db"]]
               /\ UNCHANGED commandRows
          ELSE /\ commandRows' = Append(commandRows, "pending")
               /\ deviceCommandCalls' = [deviceCommandCalls EXCEPT ![i] =
                      IF isConnected
                      THEN [call EXCEPT !.commandId = commandId, !.pc = "publish",
                                        !.handed = TRUE]
                      ELSE [call EXCEPT !.commandId = commandId, !.pc = "threw",
                                        !.error = "MQTT client not connected"]]
    /\ UNCHANGED isConnected
    /\ UNCHANGED <<correlatorVars, routerVars, matcherVars, classifierVars,
                   registryVars, lifecycleVars, envelopeVars, echoVars, tokenVars,
                   endpointVars>>

\* the callback of client.publish: with an error the promise rejects and
\* sendDeviceCommand rethrows, else the UPDATE is issued
DeviceCommandPublishCallback(i, err) ==
    /\ Tick
    /\ i \in DOMAIN deviceCommandCalls
    /\ deviceCommandCalls[i].pc = "publish"
    /\ deviceCommandCalls' = [deviceCommandCalls EXCEPT ![i] =
           IF err THEN [@ EXCEPT !.pc = "threw", !.error = "publish"]
           ELSE [@ EXCEPT !.pc = "update", !.confirmed = TRUE]]
    /\ UNCHANGED <<isConnected, commandRows>>
    /\ UNCHANGED <<correlatorVars, routerVars, matcherVars, classifierVars,
                   registryVars, lifecycleVars, envelopeVars, echoVars, tokenVars,
                   endpointVars>>

\* the UPDATE settled: the row is 'sent' and the call returns, or the
\* rejection is rethrown
DeviceCommandUpdateDone(i, ok) ==
    /\ Tick
    /\ i \in DOMAIN deviceCommandCalls
    /\ deviceCommandCalls[i].pc = "update"
    /\ IF ok
       THEN /\ commandRows' = [commandRows EXCEPT
                                 ![deviceCommandCalls[i].commandId] = "sent"]
            /\ deviceCommandCalls' = [deviceCommandCalls EXCEPT ![i].pc = "returned"]
       ELSE /\ deviceCommandCalls' = [deviceCommandCalls EXCEPT
                                        ![i].pc = "threw", ![i].error = "db"]
            /\ UNCHANGED commandRows
    /\ UNCHANGED isConnected
    /\ UNCHANGED <<correlatorVars, routerVars, matcherVars, classifierVars,
                   registryVars, lifecycleVars, envelopeVars, echoVars, tokenVars,
                   endpointVars>>

\* sendDeviceCommand calls with the connection going up and down
DeviceCommandNext ==
    \/ OnConnect
    \/ OnClose
    \/ \E d \in DeviceIds : SendDeviceCommand(d)
    \/ \E i \in 1..MaxCommands, ok \in BOOLEAN : DeviceCommandSelectDone(i, ok)
    \/ \E i \in 1..MaxCommands, ok \in BOOLEAN : DeviceCommandInsertDone(i, ok)
    \/ \E i \in 1..MaxCommands, err \in BOOLEAN : DeviceCommandPublishCallback(i, err)
    \/ \E i \in 1..MaxCommands, ok \in BOOLEAN : DeviceCommandUpdateDone(i, ok)

DeviceCommandSpec == Init /\ [][DeviceCommandNext]_vars

----------------------------------------------------------------------------
(* JWT tokens: login, refresh, logout and authMiddleware *)

\* table users: user 1 has role 'user', user 2 has role 'admin'; both active
UserIds == {1, 2}

UserRole(userId) == IF userId = 2 THEN "admin" ELSE "user"

\* getAppRole(req): body.app_role, the X-App-Role header, or 'web'
AppRoles == {"web", "mobile"}

\* a token that was not signed with JWT_SECRET
ForgedToken == 0

\* the n-th login or refresh request signs token n
TokenIds == 1..MaxLogins

\* the user a signed token names (decoded.userId)
TokenUser(token) == authRequests[token].userId

\* revoked = false AND (expires_at IS NULL OR expires_at > NOW())
RowActive(row) == ~row.revoked /\ row.token \notin expiredTokens

\* isTokenActive({userId, token})
IsTokenActive(userId, token) ==
    \E r \in DOMAIN user_tokens :
        /\ user_tokens[r].user_id = userId
        /\ user_tokens[r].token = token
        /\ RowActive(user_tokens[r])

\* authMiddleware's checks: jwt.verify(token, JWT_SECRET) accepts a signed
\* token whose exp has not passed, then the user row must exist and be active
MiddlewareAccepts(token) ==
    /\ token \in DOMAIN authRequests
    /\ token \notin expiredTokens
    /\ TokenUser(token) \in UserIds

\* a login or refresh from generateToken on: role is what the handler
\* compares with 'admin'; a non-admin awaits the revoking UPDATE first
NewAuthRequest(kind, userId, role, appRole) ==
    [kind |-> kind, userId |-> userId, role |-> role, appRole |-> appRole,
     pc |-> IF role # "admin" THEN "revoke" ELSE "insert"]

\* login(req, res) with a valid password, up to the first query on
\* user_tokens
Login(userId, appRole) ==
    /\ Tick
    /\ Len(authRequests) < MaxLogins
    /\ authRequests' = Append(authRequests,
           NewAuthRequest("login", userId, UserRole(userId), appRole))
    /\ UNCHANGED <<user_tokens, expiredTokens, loggedOut, authDecisions>>
    /\ UNCHANGED <<isConnected, correlatorVars, routerVars, matcherVars,
                   classifierVars, registryVars, lifecycleVars, envelopeVars,
                   echoVars, deviceCommandVars, endpointVars>>

\* refresh(req, res) for a request the middleware let through: req.user is
\* the row authMiddleware selected (id, email, first_name, last_name,
\* is_active), which has no role
Refresh(token, appRole) ==
    /\ Tick
    /\ Len(authRequests) < MaxLogins
    /\ MiddlewareAccepts(token)
    /\ authRequests' = Append(authRequests,
           NewAuthRequest("refresh", TokenUser(token), None, appRole))
    /\ UNCHANGED <<user_tokens, expiredTokens, loggedOut, authDecisions>>
    /\ UNCHANGED <<isConnected, correlatorVars, routerVars, matcherVars,
                   classifierVars, registryVars, lifecycleVars, envelopeVars,
                   echoVars, deviceCommandVars, endpointVars>>

\* revokeActiveTokensByAppRole settled: every active row of the user and
\* app_role is revoked and createTokenRecord is issued; a rejected query
\* ends the request with 500
AuthRevokeDone(i, ok) ==
    /\ Tick
    /\ i \in DOMAIN authRequests
    /\ authRequests[i].pc = "revoke"
    /\ IF ok
       THEN /\ user_tokens' = [r \in DOMAIN user_tokens |->
                   IF /\ user_tokens[r].user_id = authRequests[i].userId
                      /\ user_tokens[r].app_role = authRequests[i].appRole
                      /\ RowActive(user_tokens[r])
                   THEN [user_tokens[r] EXCEPT !.revoked = TRUE]
                   ELSE user_tokens[r]]
            /\ authRequests' = [authRequests EXCEPT ![i].pc = "insert"]
       ELSE /\ authRequests' = [authRequests EXCEPT ![i].pc = "failed"]
            /\ UNCHANGED user_tokens
    /\ UNCHANGED <<expiredTokens, loggedOut, authDecisions>>
    /\ UNCHANGED <<isConnected, correlatorVars, routerVars, matcherVars,
                   classifierVars, registryVars, lifecycleVars, envelopeVars,
                   echoVars, deviceCommandVars, endpointVars>>

\* createTokenRecord settled: the row is inserted and the token is sent to
\* the client; a rejected query ends the request with 500
AuthInsertDone(i, ok) ==
    /\ Tick
    /\ i \in DOMAIN authRequests
    /\ authRequests[i].pc = "insert"
    /\ IF ok
       THEN /\ user_tokens' = Append(user_tokens,
                   [user_id |-> authRequests[i].userId, token |-> i,
                    app_role |-> authRequests[i].appRole, revoked |-> FALSE])
            /\ authRequests' = [authRequests EXCEPT ![i].pc = "done"]
       ELSE /\ authRequests' = [authRequests EXCEPT ![i].pc = "failed"]
            /\ UNCHANGED user_tokens
    /\ UNCHANGED <<expiredTokens, loggedOut, authDecisions>>
    /\ UNCHANGED <<isConnected, correlatorVars, routerVars, matcherVars,
                   classifierVars, registryVars, lifecycleVars, envelopeVars,
                   echoVars, deviceCommandVars, endpointVars>>

\* logout(req, res) for a request that carries req.user: without req.token
\* it answers 401, else revokeToken marks the row and it answers 'Logout
\* successful'.  authMiddleware sets req.user only; whether the route puts
\* the token on the request is the input tokenOnRequest.
Logout(token, tokenOnRequest) ==
    /\ Tick
    /\ MiddlewareAccepts(token)
    /\ authRequests[token].pc = "done"
    /\ IF tokenOnRequest
       THEN /\ user_tokens' = [r \in DOMAIN user_tokens |->
                   IF /\ user_tokens[r].user_id = TokenUser(token)
                      /\ user_tokens[r].token = token
                      /\ ~user_tokens[r].revoked
                   THEN [user_tokens[r] EXCEPT !.revoked = TRUE]
                   ELSE user_tokens[r]]
            /\ loggedOut' = loggedOut \cup {token}
       ELSE UNCHANGED <<user_tokens, loggedOut>>
    /\ UNCHANGED <<authRequests, expiredTokens, authDecisions>>
    /\ UNCHANGED <<isConnected, correlatorVars, routerVars, matcherVars,
                   classifierVars, registryVars, lifecycleVars, envelopeVars,
                   echoVars, deviceCommandVars, endpointVars>>

\* authMiddleware(req, res, next) for a request to a protected route that
\* bears a token: next() or 401
AuthMiddleware(token) ==
    /\ Tick
    /\ token \in DOMAIN authRequests => authRequests[token].pc = "done"
    /\ authDecisions' = authDecisions \cup
           {[token |-> token,
             accepted |-> MiddlewareAccepts(token),
             active |-> /\ token \in DOMAIN authRequests
                        /\ IsTokenActive(TokenUser(token), token),
             afterLogout |-> token \in loggedOut]}
    /\ UNCHANGED <<user_tokens, authRequests, expiredTokens, loggedOut>>
    /\ UNCHANGED <<isConnected, correlatorVars, routerVars, matcherVars,
                   classifierVars, registryVars, lifecycleVars, envelopeVars,
                   echoVars, deviceCommandVars, endpointVars>>

\* the exp of a token passes (JWT_EXPIRES_IN is configured)
TokenExpires(token) ==
    /\ Tick
    /\ token \in DOMAIN authRequests
    /\ token \notin expiredTokens
    /\ expiredTokens' = expiredTokens \cup {token}
    /\ UNCHANGED <<user_tokens, authRequests, loggedOut, authDecisions>>
    /\ UNCHANGED <<isConnected, correlatorVars, routerVars, matcherVars,
                   classifierVars, registryVars, lifecycleVars, envelopeVars,
                   echoVars, deviceCommandVars, endpointVars>>

\* the token store under concurrent requests
TokenNext ==
    \/ \E u \in UserIds, a \in AppRoles : Login(u, a)
    \/ \E t \in TokenIds, a \in AppRoles : Refresh(t, a)
    \/ \E i \in TokenIds, ok \in BOOLEAN : AuthRevokeDone(i, ok)
    \/ \E i \in TokenIds, ok \in BOOLEAN : AuthInsertDone(i, ok)
    \/ \E t \in TokenIds, onReq \in BOOLEAN : Logout(t, onReq)
    \/ \E t \in TokenIds \cup {ForgedToken} : AuthMiddleware(t)
    \/ \E t \in TokenIds : TokenExpires(t)

TokenSpec == Init /\ [][TokenNext]_vars

----------------------------------------------------------------------------
(* The device endpoints: addDevice, updateDevice, removeDevice *)

EndpointOps == {"add", "update", "remove"}

\* gpio_pin of a device_id `${board_id}_GPIO${gpio_pin}`
PinOf(deviceId) == IF deviceId = "board1_GPIO2" THEN 2 ELSE 0

\* the command an endpoint hands to sendCommand; data.device_id is set in
\* all three
EndpointCommand(op, deviceId) ==
    [commandType |-> IF op = "add" THEN "add_device"
                     ELSE IF op = "update" THEN "update_device"
                     ELSE "remove_device",
     device_type |-> IF op = "add" THEN "switch" ELSE None,
     pin |-> IF op = "add" THEN PinOf(deviceId) ELSE NoPin,
     device_id |-> TRUE]

\* the answer an endpoint gives before it sends a command, 0 if none:
\* addDevice 409 when an enabled device has the pin, updateDevice and
\* removeDevice 404 when the device has no row (the board is the user's and
\* online)
EarlyAnswer(op, deviceId) ==
    IF op = "add" THEN (IF devices[deviceId].is_enabled THEN 409 ELSE 0)
    ELSE IF ~devices[deviceId].present THEN 404 ELSE 0

\* table devices when the endpoint calls sendCommand: DeviceModel.addDevice
\* and getDeviceWithBoard only read; DeviceModel.deleteDevice sets
\* is_enabled = 0 for the device it found
DevicesAfterChecks(op, deviceId) ==
    IF op = "remove" /\ EarlyAnswer(op, deviceId) = 0
    THEN [devices EXCEPT ![deviceId].is_enabled = FALSE]
    ELSE devices

\* an endpoint from its start to its sendCommand call (sendCommand runs to
\* its first await)
EndpointStart(op, deviceId) ==
    /\ Len(deviceRequests) < MaxCommands
    /\ commandCounter < MaxCommands
    /\ devices' = DevicesAfterChecks(op, deviceId)
    /\ deviceRequests' = Append(deviceRequests,
           [op |-> op, deviceId |-> deviceId, before |-> devices[deviceId],
            commandId |-> IF EarlyAnswer(op, deviceId) = 0
                          THEN commandCounter + 1 ELSE 0,
            answer |-> EarlyAnswer(op, deviceId)])
    /\ IF EarlyAnswer(op, deviceId) = 0
       THEN SendCommandCall("board1", EndpointCommand(op, deviceId))
       ELSE UNCHANGED <<commandCounter, commandObjs, pendingCommands,
                        device_commands, sendCalls, published, publishRejected>>
    /\ UNCHANGED <<isConnected, promises, ackHandlers, lateResponse, steps>>
    /\ UNCHANGED <<routerVars, matcherVars, classifierVars, registryVars,
                   lifecycleVars, envelopeVars, echoVars, deviceCommandVars,
                   tokenVars>>

\* the endpoint's waitForAck(commandId, timeoutMs), called with the id
\* sendCommand returned
EndpointWaitForAck(commandId) ==
    /\ \E i \in DOMAIN deviceRequests :
          deviceRequests[i].commandId = commandId /\ deviceRequests[i].answer = 0
    /\ \A p \in DOMAIN promises : promises[p].cmd # commandId
    /\ WaitForAck(commandId)

\* what waitForAck gave the request: "true", "false", or "blocked"
AckReceived(request) ==
    IF \E p \in DOMAIN promises : promises[p].cmd = request.commandId
    THEN promises[CHOOSE p \in DOMAIN promises :
                     promises[p].cmd = request.commandId].state
    ELSE "blocked"

\* the endpoint after sendCommand threw (500) or after waitForAck settled:
\* 408 on false; on true addDevice inserts the row (201), updateDevice
\* writes the name (200), removeDevice only answers (200)
EndpointResume(i) ==
    /\ i \in DOMAIN deviceRequests
    /\ deviceRequests[i].answer = 0
    /\ LET request == deviceRequests[i]
           threw == sendCalls[request.commandId] = "threw"
           ack == AckReceived(request)
       IN /\ threw \/ ack \in {"true", "false"}
          /\ deviceRequests' = [deviceRequests EXCEPT ![i].answer =
                 IF threw THEN 500
                 ELSE IF ack = "false" THEN 408
                 ELSE IF request.op = "add" THEN 201 ELSE 200]
          /\ devices' =
                 IF threw \/ ack = "false" \/ request.op = "remove" THEN devices
                 ELSE IF request.op = "add"
                 THEN [devices EXCEPT ![request.deviceId] =
                          [present |-> TRUE, is_enabled |-> TRUE, name |-> "new"]]
                 ELSE [devices EXCEPT ![request.deviceId].name = "renamed"]
    /\ UNCHANGED <<isConnected, correlatorVars, steps>>
    /\ UNCHANGED <<routerVars, matcherVars, classifierVars, registryVars,
                   lifecycleVars, envelopeVars, echoVars, deviceCommandVars,
                   tokenVars>>

\* the explicit acks board1 sends
EndpointAcks == {data \in Payloads : IsExplicitAck(data)}

\* the three endpoints with the correlator: the INSERT of sendCommand, the
\* waiter and its timer, the board's explicit acks
EndpointNext ==
    \/ OnConnect
    \/ \E op \in EndpointOps, d \in EndpointDevices : EndpointStart(op, d)
    \/ \E id \in CommandIds : SendCommandDbOk(id)
    \/ \E id \in CommandIds : SendCommandDbFail(id)
    \/ \E c \in CommandIds : EndpointWaitForAck(c)
    \/ \E p \in 1..MaxWaits : TimeoutFire(p)
    \/ \E data \in EndpointAcks : HandleDeviceResponse("board1", data)
    \/ \E i \in 1..MaxInflight : AckDbOk(i)
    \/ \E i \in 1..MaxCommands : EndpointResume(i)

EndpointSpec == Init /\ [][EndpointNext]_vars

----------------------------------------------------------------------------
(* Properties of the ack correlator *)

\* the promise of command c that an acknowledgment would resolve, if blocked
BlockedWaiter(c) ==
    IF commandObjs[c].resolve # 0 /\ promises[commandObjs[c].resolve].state = "blocked"
    THEN commandObjs[c].resolve
    ELSE 0

TimerFired(p) == promises[p].timer \in {"timedout", "lapsed"}

HandlerInFlight(c) == \E i \in DOMAIN ackHandlers : ackHandlers[i].commandId = c

WaitersOf(c) == {p \in DOMAIN promises : promises[p].cmd = c}

\* the command's payload was handed to the transport, so a device can answer it
Published(c) == \E m \in published : m.id = c

\* the firmware response is for command c: c's board, and the action and pin c
\* recorded (a command that recorded none names no action or pin to compare)
ResponseIsFor(c, deviceId, data) ==
    /\ IsFirmwareResponse(data)
    /\ commandObjs[c].boardId = deviceId
    /\ commandObjs[c].expectedAction \in {None, data.action}
    /\ commandObjs[c].expectedPin \in {NoPin, data.pin}

\* C1: waitForAck returns true if and only if an explicit success ack for the
\* command's id or a success response for its board, action and pin arrived
\* before the timeout.  (a) A waiter turns true only in the step that completes
\* such an ack.  (b) When the handler of an explicit success ack finishes, a
\* waiter still blocked on the command turns true.
C1_TrueIffMatchingAck ==
    [][ /\ \A p \in DOMAIN promises :
            (promises[p].state = "blocked" /\ promises'[p].state = "true"
                /\ Published(promises[p].cmd)) =>
            LET c == promises[p].cmd IN
            \/ \E i \in DOMAIN ackHandlers :
                  /\ ackHandlers[i] = [commandId |-> c, success |-> TRUE]
                  /\ AckDbOk(i)
            \/ \E b \in Boards, d \in Payloads :
                  /\ d.status = "success"
                  /\ ResponseIsFor(c, b, d)
                  /\ HandleDeviceResponse(b, d)
        /\ \A i \in DOMAIN ackHandlers :
            LET h == ackHandlers[i] IN
            (h.success /\ Published(h.commandId) /\ BlockedWaiter(h.commandId) # 0
                /\ promises[BlockedWaiter(h.commandId)].timer = "armed"
                /\ (AckDbOk(i) \/ AckDbFail(i)))
            => promises'[BlockedWaiter(h.commandId)].state = "true"
      ]_vars

\* C2: a command's status leaves pending at most once, and an explicit ack for
\* a command that was already acknowledged changes neither the command, nor
\* its row, nor its waiter, and starts no second persistence write.
C2_TerminalOnce ==
    [][ /\ \A c \in DOMAIN commandObjs :
            (commandObjs[c].status # "pending" /\ Published(c)) =>
            commandObjs'[c].status = commandObjs[c].status
        /\ \A b \in Boards, d \in Payloads :
            (/\ IsExplicitAck(d)
             /\ d.commandId \in DOMAIN commandObjs
             /\ commandObjs[d.commandId].status # "pending"
             /\ Published(d.commandId)
             /\ HandleDeviceResponse(b, d))
            => UNCHANGED <<commandObjs, pendingCommands, promises, ackHandlers,
                           device_commands>>
      ]_vars

\* C3: for a published command with one waiter, once the timeout has fired and every
\* acknowledgment handler of the command has run to its end, exactly one path
\* has made the transition: the waiter is resolved and the entry is removed.
C3_OneWinner ==
    \A p \in DOMAIN promises :
        LET c == promises[p].cmd IN
        (TimerFired(p) /\ Published(c) /\ WaitersOf(c) = {p} /\ ~HandlerInFlight(c))
        => (promises[p].state # "blocked" /\ ~InMap(c))

\* C4: a command resolved by one strategy is never re-resolved by the other: a
\* firmware response for the command's board, action and pin changes no
\* command whose explicit ack was received, nor the value its waiter gets; an
\* explicit ack changes no command that a firmware response resolved.
C4_NoCrossResolution ==
    [][ \A b \in Boards, d \in Payloads :
            HandleDeviceResponse(b, d) =>
            \A c \in DOMAIN commandObjs :
                (commandObjs[c].status # "pending" /\ Published(c)
                    /\ ResponseNames(c, b, d)
                    /\ (IsFirmwareResponse(d) \/ ~InMap(c)))
                => /\ commandObjs'[c] = commandObjs[c]
                   /\ \A p \in WaitersOf(c) : promises'[p] = promises[p]
      ]_vars

\* C5: every waitForAck call on a pending command has returned by the time its
\* own timeout has fired.
C5_ReturnsByTimeout ==
    \A p \in DOMAIN promises :
        (TimerFired(p) /\ Published(promises[p].cmd)
            /\ WaitersOf(promises[p].cmd) = {p})
        => promises[p].state # "blocked"

\* C6 (as claimed): after waitForAck(c1) returned false by timeout, a late
\* response naming c1 (by id, or by board, action and pin) is a no-op: the
\* pending map, the commands and the waiters are unchanged.  (Stated for runs
\* whose commands were all published and carry a non-zero pin.)
C6_LateResponseNoOp ==
    [][ \A b \in Boards, d \in Payloads :
            (/\ \E c \in TimedOutIds : ResponseNames(c, b, d)
             /\ \A k \in DOMAIN commandObjs :
                   Published(k) /\ Truthy(commandObjs[k].expectedPin)
             /\ HandleDeviceResponse(b, d))
            => UNCHANGED <<pendingCommands, commandObjs, promises>>
      ]_vars

\* C6 (amended): after waitForAck(c1) returned false by timeout, a late response
\* naming c1 never touches c1: c1 is not back in the pending map and its object
\* and waiters are unchanged; a late explicit ack changes nothing at all, and
\* a late firmware response removes at most one other entry, of its own board.
C6_LateResponseLeavesTimedOut ==
    [][ \A c \in TimedOutIds, b \in Boards, d \in Payloads :
            (ResponseNames(c, b, d) /\ HandleDeviceResponse(b, d)) =>
                /\ \A i \in DOMAIN pendingCommands' : pendingCommands'[i] # c
                /\ commandObjs'[c] = commandObjs[c]
                /\ \A p \in WaitersOf(c) : promises'[p] = promises[p]
                /\ IsExplicitAck(d) =>
                      UNCHANGED <<pendingCommands, commandObjs, promises,
                                  ackHandlers, device_commands>>
                /\ Len(pendingCommands') >= Len(pendingCommands) - 1
                /\ \A i \in DOMAIN pendingCommands :
                      (\A j \in DOMAIN pendingCommands' :
                          pendingCommands'[j] # pendingCommands[i])
                      => commandObjs[pendingCommands[i]].boardId = b
      ]_vars

\* C6 witness: a command timed out (its waiter got false, its entry is gone)
\* and a response naming it was handled afterwards.
C6_Witness ==
    /\ lateResponse
    /\ \E p \in DOMAIN promises :
          /\ promises[p].timer = "timedout"
          /\ promises[p].state = "false"
          /\ ~InMap(promises[p].cmd)

\* C7: the firmware branch resolves a pending command only if its board is
\* the response's board and its expectedAction and expectedPin equal the
\* response's action and details.pin.
C7_HeuristicExactMatch ==
    [][ \A b \in Boards, d \in Payloads :
            (HandleDeviceResponse(b, d) /\ IsFirmwareResponse(d)) =>
            \A c \in DOMAIN commandObjs :
                (InMap(c) /\ Published(c)
                    /\ \A j \in DOMAIN pendingCommands' : pendingCommands'[j] # c)
                => /\ commandObjs[c].boardId = b
                   /\ commandObjs[c].expectedAction = d.action
                   /\ commandObjs[c].expectedPin = d.pin
      ]_vars

\* C8: a second waitForAck on a command whose first waiter is still blocked
\* returns false at once and leaves the first waiter registered.
C8_SecondWaiterRefused ==
    [][ \A c \in DOMAIN commandObjs :
            (InMap(c) /\ Published(c) /\ BlockedWaiter(c) # 0 /\ WaitForAck(c)) =>
            /\ promises'[Len(promises')].state = "false"
            /\ commandObjs'[c].resolve = commandObjs[c].resolve
      ]_vars

\* C9: every entry of the pending-command map has status pending.
C9_MapHoldsOnlyPending ==
    \A i \in DOMAIN pendingCommands :
        Published(pendingCommands[i]) =>
        commandObjs[pendingCommands[i]].status = "pending"

\* C10: a sendCommand whose publish was rejected because the transport is not
\* connected fails: it throws to its caller instead of returning the id.
C10_DisconnectedSendFails ==
    \A id \in publishRejected : sendCalls[id] = "threw"

\* C12: when sendCommand hands a command's payload to the transport, the
\* command's entry is in the pending map with status pending and the expected
\* action and pin sendCommand derived, so an acknowledgment arriving after the
\* publish finds it.
C12_EntryBeforePublish ==
    [][ \A m \in published' \ published :
            /\ \E i \in DOMAIN pendingCommands' : pendingCommands'[i] = m.id
            /\ commandObjs'[m.id].status = "pending"
      ]_vars

\* C13: waitForAck on an id that is not in the pending map (never issued,
\* already acknowledged or already timed out) returns false in the call
\* itself, arms no timer and leaves the pending map and the commands unchanged.
C13_AbsentIdReturnsFalse ==
    [][ \A c \in CommandIds \cup {UnknownId} :
            (~InMap(c) /\ WaitForAck(c)) =>
                /\ promises'[Len(promises')] =
                      [cmd |-> c, state |-> "false", timer |-> "none"]
                /\ UNCHANGED <<pendingCommands, commandObjs>>
      ]_vars

\* C13 witness: waitForAck was called on a command that a response had
\* already resolved and removed; the call returned false.
C13_Witness ==
    \E p \in DOMAIN promises :
        /\ promises[p].cmd \in DOMAIN commandObjs
        /\ commandObjs[promises[p].cmd].status = "acknowledged"
        /\ promises[p] = [cmd |-> promises[p].cmd, state |-> "false",
                          timer |-> "none"]

\* C30: the id a sendCommand call returns was returned by no earlier call:
\* it is above every id issued so far, whether that id's command is still
\* pending, was acknowledged or timed out; and the counter the ids are made
\* from never goes down.
C30_IdsNeverReused ==
    [][ /\ commandCounter' >= commandCounter
        /\ DOMAIN commandObjs = 1..commandCounter
        /\ \A i \in DOMAIN pendingCommands : pendingCommands[i] \in 1..commandCounter
        /\ \A b \in Boards, in \in CommandInputs :
              SendCommand(b, in)
              => LET id == pendingCommands'[Len(pendingCommands')] IN
                 /\ id = commandCounter'
                 /\ id \notin DOMAIN commandObjs
                 /\ \A i \in DOMAIN pendingCommands : pendingCommands[i] # id
                 /\ \A m \in published : m.id # id
                 /\ \A r \in publishRejected : r # id
      ]_vars

\* C30 witness: the first command was acknowledged and left the map, the
\* second was sent after that and has another id.
C30_Witness ==
    /\ commandCounter = 2
    /\ commandObjs[1].status = "acknowledged"
    /\ commandObjs[2].status = "pending"
    /\ pendingCommands = <<2>>

\* C37: the id field of the payload a sendCommand call hands to the
\* transport is the correlation id the call returns, which is the key of its
\* entry in pendingCommands
C37_OneCorrelationId ==
    \A c \in DOMAIN payloads :
        (sendCalls[c] = "returned" /\ \E m \in published : m.id = c)
        => payloads[c].id = c

----------------------------------------------------------------------------
(* Properties of the device response handler *)

\* the earliest kind, in the order explicit ack, firmware response, GPIO or
\* state change, heartbeat/status, sensor reading, configuration sync, error
\* report, whose test a parsed payload passes; fallback when it passes none
EarliestKind(data) ==
    IF data.type = "ack" /\ data.commandId # 0 THEN "ack"
    ELSE IF data.status # None /\ data.action # None THEN "firmware"
    ELSE IF data.type = "gpio_change" /\ data.pin # NoPin THEN "gpio_change"
    ELSE IF data.type = "state" THEN "state"
    ELSE IF data.type \in {"heartbeat", "status"} THEN "heartbeat"
    ELSE IF data.type = "sensor" THEN "sensor"
    ELSE IF data.type = "device_sync" THEN "device_sync"
    ELSE IF data.type = "error" THEN "error"
    ELSE "fallback"

\* C17: a parsed payload that passes the test of some event kind is handled
\* as exactly one kind, the earliest it passes: only that branch runs, a
\* payload taken as an acknowledgment has no event effect, and a payload
\* taken as an event resolves no command.  (Stated for payloads whose
\* status/action scan, if they pass its test, finds a pending command.)
C17_OnlyEarliestKind ==
    [][ \A b \in Boards, m \in Messages, e \in BOOLEAN :
            (/\ m.json
             /\ EarliestKind(m) # "fallback"
             /\ EarliestKind(m) = "firmware" => MatchingPositions(b, m) # {}
             /\ HandleDeviceMessage(b, m, e))
            => /\ handled'[1].branches = <<EarliestKind(m)>>
               /\ EarliestKind(m) \in {"ack", "firmware"} =>
                     /\ handled'[1].effects = {}
                     /\ syncCalls' = syncCalls
               /\ EarliestKind(m) \notin {"ack", "firmware"} =>
                     UNCHANGED <<pendingCommands, commandObjs, promises>>
      ]_vars

\* C18: a message that is not JSON, and a JSON payload that passes the test
\* of no event kind, is handled as an unclassified event: the fallback
\* branch runs and the message is stored.
C18_UnclassifiedStored ==
    [][ \A b \in Boards, m \in Messages, e \in BOOLEAN :
            (/\ ~m.json \/ EarliestKind(m) = "fallback"
             /\ HandleDeviceMessage(b, m, e))
            => /\ handled'[1].branches # <<>>
               /\ handled'[1].effects # {}
      ]_vars

\* C19: an explicit ack whose commandId is not in the pending map changes
\* no command, resolves no waiter, publishes nothing, starts no database
\* write and runs no other branch, whatever other fields it carries.
C19_AckMissIgnored ==
    [][ \A b \in Boards, m \in Messages, e \in BOOLEAN :
            (/\ m.json
             /\ IsExplicitAck(m)
             /\ ~InMap(m.commandId)
             /\ HandleDeviceMessage(b, m, e))
            => /\ UNCHANGED <<pendingCommands, commandObjs, promises, ackHandlers,
                              published, publishRejected, device_commands,
                              commandCounter, syncCalls>>
               /\ handled'[1].branches = <<"ack">>
               /\ handled'[1].effects = {}
      ]_vars

\* C19 witness: the last message handled was an explicit ack for an id that
\* is not in the map, carrying status and action; on every board a pending
\* command matches its action and pin, one of them with a blocked waiter, and
\* all of them are still pending.
C19_Witness ==
    /\ handled # <<>>
    /\ IsExplicitAck(handled[1].message)
    /\ ~InMap(handled[1].message.commandId)
    /\ handled[1].message.status # None
    /\ handled[1].message.action # None
    /\ \A b \in Boards : MatchingPositions(b, handled[1].message) # {}
    /\ \E p \in DOMAIN promises : promises[p].state = "blocked"
    /\ \A i \in DOMAIN pendingCommands :
          commandObjs[pendingCommands[i]].status = "pending"

\* the pending commands a firmware response of a board matches
FirmwareHits(deviceId, data) ==
    {pendingCommands[i] : i \in MatchingPositions(deviceId, data)}

\* the commands a step takes out of the pending-command map
LeftMap ==
    {c \in CommandIds :
        /\ InMap(c)
        /\ \A i \in DOMAIN pendingCommands' : pendingCommands'[i] # c}

\* C34: a firmware (status/action) response resolves at most one pending
\* command: of the pending commands of the board that match it, the one
\* sendCommand registered earliest; every other command stays in the map and
\* every other waiter stays as it was
C34_FirmwareResolvesEarliestOnly ==
    [][\A b \in Boards, d \in Messages :
          (/\ d.json
           /\ IsFirmwareResponse(d)
           /\ \E e \in DeviceRows(d) : HandleDeviceMessage(b, d, e))
          => /\ Cardinality(LeftMap) <= 1
             /\ FirmwareHits(b, d) = {} => LeftMap = {}
             /\ FirmwareHits(b, d) # {}
                   => LeftMap = {CHOOSE c \in FirmwareHits(b, d) :
                                    \A o \in FirmwareHits(b, d) : c <= o}
             /\ DOMAIN promises' = DOMAIN promises
             /\ \A p \in DOMAIN promises :
                    promises[p].cmd \notin LeftMap => promises'[p] = promises[p]
             /\ \A c \in FirmwareHits(b, d) \ LeftMap :
                    commandObjs'[c] = commandObjs[c]]_vars

\* C34 witness: command 2 was waited for before command 1, both of one
\* board, action and pin; a firmware response resolved the waiter of
\* command 1 and command 2 is still pending with its waiter blocked
C34_Witness ==
    /\ Len(promises) = 2
    /\ promises[1].cmd = 2 /\ promises[1].state = "blocked"
    /\ promises[2].cmd = 1 /\ promises[2].state = "true"
    /\ InMap(2) /\ ~InMap(1)
    /\ commandObjs[1].boardId = commandObjs[2].boardId
    /\ commandObjs[1].expectedAction = commandObjs[2].expectedAction
    /\ commandObjs[1].expectedPin = commandObjs[2].expectedPin
    /\ ackHandlers = <<>>
    /\ steps = 6

\* C33: every command sendCommand registered leaves the pending-command map
\* in the end, whether or not waitForAck was called for it (as long as the
\* run has callbacks left to take)
C33_PendingEventuallyLeaves ==
    \A c \in CommandIds : InMap(c) ~> (~InMap(c) \/ steps = MaxSteps)

----------------------------------------------------------------------------
(* Properties of board registration *)

\* C20: when a board that has a row announces itself again, the write of
\* auto-registration leaves a non-null owner, MAC address, command topic and
\* response topic of the row as they were, and a field that was null is
\* afterwards null or the announced value.
C20_ExistingFieldsKept ==
    [][ \A i \in 1..MaxRegistrations :
            (/\ i \in DOMAIN registrations
             /\ registrations[i].pc = "write"
             /\ esp32_boards[registrations[i].data.deviceId] # NoRow
             /\ RegisterWriteDone(i))
            => LET data == registrations[i].data
                   old == esp32_boards[data.deviceId]
                   new == esp32_boards'[data.deviceId]
               IN /\ old.user_id # 0 => new.user_id = old.user_id
                  /\ old.mac_address # Null => new.mac_address = old.mac_address
                  /\ old.mac_address = Null =>
                        new.mac_address \in {Null, AnnouncedMac(data)}
                  /\ old.mqtt_topic_cmd # Null =>
                        new.mqtt_topic_cmd = old.mqtt_topic_cmd
                  /\ old.mqtt_topic_resp # Null =>
                        new.mqtt_topic_resp = old.mqtt_topic_resp
      ]_vars

\* the account a key of the announce payload resolves to: key 1 is shortId,
\* 2 is userEmail, 3 is userId; 0 when the key is absent or has no account
AccountByKey(data, k) ==
    IF k = 1 THEN (IF data.shortId # None THEN UserByShortId(data.shortId) ELSE 0)
    ELSE IF k = 2
    THEN (IF data.userEmail # None THEN UserByEmail(data.userEmail) ELSE 0)
    ELSE (IF data.userId # 0 THEN UserById(data.userId) ELSE 0)

KeyColumn(k) == IF k = 1 THEN "short_id" ELSE IF k = 2 THEN "email" ELSE "id"

NoneResolves(data) == \A k \in 1..3 : AccountByKey(data, k) = 0

\* the topic the ack of a request goes to
ReplyTopicOf(data) ==
    IF data.replyTopic # None THEN data.replyTopic ELSE <<"cmd", data.deviceId>>

\* C21: when none of shortId, email and user id resolves to an account, the
\* request ends there: no row of esp32_boards is created or changed, no
\* query on the board's row follows, every ack the step publishes has status
\* 'failed' and an error field, and while connected that ack is published.
\* No call is past its user lookups without an account.
C21_NoAccountFailsExplicitly ==
    [][ /\ \A i \in DOMAIN registrations :
              registrations[i].pc # "users" => registrations[i].userId # 0
        /\ \A i \in 1..MaxRegistrations :
              (/\ i \in DOMAIN registrations
               /\ registrations[i].pc = "users"
               /\ NoneResolves(registrations[i].data)
               /\ RegisterUsersDone(i))
              => /\ esp32_boards' = esp32_boards
                 /\ registrations' = RemoveAt(registrations, i)
                 /\ \A a \in registerAcks' \ registerAcks :
                       /\ a.status = "failed"
                       /\ a.error # None
                       /\ a.topic = ReplyTopicOf(registrations[i].data)
                 /\ isConnected =>
                       \E a \in registerAcks' :
                          /\ a.status = "failed"
                          /\ a.error # None
                          /\ a.topic = ReplyTopicOf(registrations[i].data)
                          /\ a.user_short_id = registrations[i].data.shortId
      ]_vars

\* C21 witness: a failed ack for the unknown shortId was published and no
\* board has a row.
C21_Witness ==
    /\ \E a \in registerAcks :
          a.status = "failed" /\ a.error = "link_failed" /\ a.user_short_id = "sX"
    /\ \A b \in Boards : esp32_boards[b] = NoRow
    /\ registrations = <<>>

C23_MissingFieldsRejected ==
    [][ \A data \in RegistrationInputs :
            (/\ data.json
             /\ data.deviceId = None \/ data.shortId = None
             /\ HandleRegistration(data))
            => UNCHANGED <<registrations, esp32_boards, registerAcks>>
      ]_vars

\* C23 witness: handleRegistration refused a payload for its missing fields,
\* and nothing is in flight, recorded or acknowledged.
C23_Witness ==
    /\ "missing_fields" \in registerWarned
    /\ registrations = <<>>
    /\ registerAcks = {}
    /\ \A b \in Boards : esp32_boards[b] = NoRow

\* the step that ends the request of call i, and whether it reports success
EndsRequest(i) ==
    /\ i \in DOMAIN registrations
    /\ \/ registrations[i].pc = "users" /\ RegisterUsersDone(i)
                                        /\ Len(registrations') < Len(registrations)
       \/ registrations[i].pc = "write" /\ RegisterWriteDone(i)

\* the row of the board of call i was written by the step: the INSERT created
\* it, or the UPDATE left it with the values of the announce
RowWritten(i) ==
    LET data == registrations[i].data
        old == esp32_boards[data.deviceId]
        new == esp32_boards'[data.deviceId]
    IN /\ registrations[i].pc = "write"
       /\ IF registrations[i].existingBoard = NoRow
          THEN old = NoRow /\ new # NoRow
          ELSE old # NoRow /\ new = UpdatedRow(old, data, old.user_id)

\* what C24 says of the ack of the request that call i ends, but for its
\* being published: the ack has the topic and fields claimed, and the step
\* publishes it if sent and nothing else
AckAsClaimed(i, sent) ==
    LET data == registrations[i].data
        ok == ~NoneResolves(data) /\ RowWritten(i)
        ack == [topic |-> ReplyTopicOf(data),
                action |-> "registered",
                status |-> IF ok THEN "success" ELSE "failed",
                user_short_id |-> data.shortId,
                error |-> IF ok THEN None ELSE "link_failed"]
    IN /\ sent => ack \in registerAcks'
       /\ registerAcks' \ registerAcks \subseteq {ack}
       /\ ~sent => registerAcks' = registerAcks

\* C24 as stated: the step that ends a request with deviceId and shortId
\* publishes its one ack, to the replyTopic if it has one and else to
\* cmd/{deviceId}, with status 'success' exactly when an account was
\* resolved and the row was written; no other step publishes an ack.
C24_OneAckPerRequest ==
    [][ /\ \A i \in 1..MaxRegistrations : EndsRequest(i) => AckAsClaimed(i, TRUE)
        /\ (\A i \in 1..MaxRegistrations : ~EndsRequest(i))
              => registerAcks' = registerAcks
      ]_vars

\* C24 amended: as stated when the client is connected at the step that
\* ends the request; when it is not, publish() rejects and no ack is
\* published for the request.
C24_OneAckWhileConnected ==
    [][ /\ \A i \in 1..MaxRegistrations :
              EndsRequest(i) => AckAsClaimed(i, isConnected)
        /\ (\A i \in 1..MaxRegistrations : ~EndsRequest(i))
              => registerAcks' = registerAcks
      ]_vars

\* C24 witness: a successful ack went to the reply topic a request named and
\* a failed one to cmd/{deviceId}.
C24_Witness ==
    /\ \E a \in registerAcks :
          a.topic = <<"reply", "board1">> /\ a.status = "success"
    /\ \E a \in registerAcks :
          a.topic = <<"cmd", "board1">> /\ a.status = "failed"
    /\ esp32_boards["board1"] # NoRow

\* board b was registered with success: it has a row and its success ack
\* was handed to the transport
Registered(b) ==
    /\ esp32_boards[b] # NoRow
    /\ \E a \in registerAcks : a.status = "success" /\ a.topic = <<"cmd", b>>

\* C25: once board d was registered with success, every message that
\* arrives on resp/d while connected is handed to the device response
\* handler.  (Stated for messages that arrive after the client has answered
\* every subscribe call of the connect handler.)
C25_RegisteredBoardIsHeard ==
    [][ \A b \in Boards :
            (/\ Registered(b)
             /\ subscribeCalls = {}
             /\ HandleMessage(<<"resp", b>>))
            => dispatched'.invoked = <<"handleDeviceResponse">>
      ]_vars

----------------------------------------------------------------------------
(* Properties of the topic router *)

\* the patterns client.subscribe was asked for and not yet answered
Requested == {call.topic : call \in subscribeCalls}

HandlerPatterns(entries) == {entries[i].pattern : i \in DOMAIN entries}

ExactEntries(topic) ==
    {i \in DOMAIN messageHandlers : messageHandlers[i].pattern = topic}

MatchingEntries(topic) ==
    {i \in DOMAIN messageHandlers :
        MatchesMqttTopic(messageHandlers[i].pattern, topic)}

\* C14: handleMessage invokes at most one handler per message: the handler
\* registered under the exact topic if there is one (and then no wildcard
\* handler), otherwise the handler of the first registered pattern that
\* matches, otherwise none.
C14_AtMostOneHandler ==
    [][ \A t \in InboundTopics :
            HandleMessage(t) =>
            LET hs == dispatched'.invoked IN
            /\ Len(hs) <= 1
            /\ ExactEntries(t) # {} =>
                  \E i \in ExactEntries(t) : hs = <<messageHandlers[i].handler>>
            /\ (ExactEntries(t) = {} /\ MatchingEntries(t) # {}) =>
                  \E i \in MatchingEntries(t) :
                      /\ \A k \in MatchingEntries(t) : i <= k
                      /\ hs = <<messageHandlers[i].handler>>
            /\ MatchingEntries(t) = {} => hs = <<>>
      ]_vars

\* C14 witness: a message arrived on a topic that has a handler of its own
\* and is also matched by an earlier registered wildcard pattern; only the
\* exact handler was invoked.
C14_Witness ==
    /\ dispatched.topic # <<>>
    /\ \E i \in ExactEntries(dispatched.topic), k \in MatchingEntries(dispatched.topic) :
          /\ k < i
          /\ messageHandlers[k].handler # messageHandlers[i].handler
          /\ dispatched.invoked = <<messageHandlers[i].handler>>

\* the subscribe calls the model makes
AllSubscribeCalls == ConnectSubscriptions \cup SubscribeInputs

HasEntry(entries, pattern, handler) ==
    \E i \in DOMAIN entries :
        entries[i] = [pattern |-> pattern, handler |-> handler]

\* C26: the subscription and handler tables change only in the callback of
\* a subscribe or unsubscribe the client confirmed.  A confirmed subscribe
\* records its pattern and, if it has one, its handler; a confirmed
\* unsubscribe removes the pattern from both tables; a callback with an error
\* leaves both as they were; subscribe and unsubscribe called while not
\* connected ask the client for nothing.
C26_TablesChangeOnConfirmation ==
    [][ /\ (subscriptions' # subscriptions \/ messageHandlers' # messageHandlers)
              => \/ \E call \in AllSubscribeCalls : SubscribeCallback(call, FALSE)
                 \/ \E t \in UnsubscribeInputs : UnsubscribeCallback(t, FALSE)
        /\ \A call \in AllSubscribeCalls :
              /\ SubscribeCallback(call, FALSE)
                    => /\ call.topic \in subscriptions'
                       /\ call.handler # None
                             => HasEntry(messageHandlers', call.topic, call.handler)
              /\ SubscribeCallback(call, TRUE)
                    => UNCHANGED <<subscriptions, messageHandlers>>
              /\ (~isConnected /\ Subscribe(call.topic, call.handler))
                    => UNCHANGED <<subscribeCalls, subscriptions, messageHandlers>>
        /\ \A t \in UnsubscribeInputs :
              /\ UnsubscribeCallback(t, FALSE)
                    => /\ t \notin subscriptions'
                       /\ t \notin HandlerPatterns(messageHandlers')
              /\ UnsubscribeCallback(t, TRUE)
                    => UNCHANGED <<subscriptions, messageHandlers>>
              /\ (~isConnected /\ Unsubscribe(t))
                    => UNCHANGED <<unsubscribeCalls, subscriptions, messageHandlers>>
      ]_vars

\* C26 witness: resp/+ was recorded (a message was dispatched to its
\* handler) and a confirmed unsubscribe removed it from both tables, while
\* the subscribe of register was answered with an error and is not recorded.
C26_Witness ==
    /\ dispatched.invoked = <<"handleDeviceResponse">>
    /\ <<"resp", "+">> \notin subscriptions
    /\ <<"resp", "+">> \notin HandlerPatterns(messageHandlers)
    /\ <<"register">> \notin subscriptions
    /\ \A call \in subscribeCalls : call.topic # <<"register">>
    /\ unsubscribeCalls = {}

\* C27: the handler table has at most one entry per pattern; a confirmed
\* subscribe with a handler leaves its pattern with exactly that handler and
\* every other pattern as it was; a connect event leaves the table as it is.
C27_OneHandlerPerPattern ==
    [][ /\ \A i, j \in DOMAIN messageHandlers :
              messageHandlers[i].pattern = messageHandlers[j].pattern => i = j
        /\ \A call \in AllSubscribeCalls :
              (call.handler # None /\ SubscribeCallback(call, FALSE))
              => /\ \A i \in DOMAIN messageHandlers' :
                       messageHandlers'[i].pattern = call.topic
                          => messageHandlers'[i].handler = call.handler
                 /\ HasEntry(messageHandlers', call.topic, call.handler)
                 /\ \A i \in DOMAIN messageHandlers :
                       messageHandlers[i].pattern # call.topic
                          => HasEntry(messageHandlers', messageHandlers[i].pattern,
                                      messageHandlers[i].handler)
                 /\ HandlerPatterns(messageHandlers')
                       = HandlerPatterns(messageHandlers) \cup {call.topic}
        /\ OnConnect => messageHandlers' = messageHandlers
        /\ Len(messageHandlers') = Cardinality(HandlerPatterns(messageHandlers'))
      ]_vars

\* C27 witness: resp/board1 had handler h1 (a message was dispatched to it),
\* a later confirmed subscribe of the same topic passed h3, and the table
\* has the one entry [resp/board1, h3].
C27_Witness ==
    /\ dispatched = [topic |-> <<"resp", "board1">>, invoked |-> <<"h1">>]
    /\ messageHandlers = <<[pattern |-> <<"resp", "board1">>, handler |-> "h3"]>>

\* C28: the connect handler sets isConnected and asks the client for
\* resp/+, cmd/+ and register, on the first connect and on every later one;
\* it leaves the recorded handlers in place, and each of the three calls
\* the client confirms has its handler in the table afterwards.
C28_ConnectRequestsSubscriptions ==
    [][ /\ OnConnect => /\ isConnected'
                        /\ ConnectSubscriptions \subseteq subscribeCalls'
                        /\ UNCHANGED <<subscriptions, messageHandlers>>
        /\ \A call \in ConnectSubscriptions :
              SubscribeCallback(call, FALSE)
                 => HasEntry(messageHandlers', call.topic, call.handler)
      ]_vars

\* C28 witness: after resp/+ was confirmed and a message dispatched to its
\* handler, the client connected again: it is connected, all three
\* subscriptions are requested anew and the handler is still in the table.
C28_Witness ==
    /\ isConnected
    /\ ConnectSubscriptions \subseteq subscribeCalls
    /\ HasEntry(messageHandlers, <<"resp", "+">>, "handleDeviceResponse")
    /\ dispatched.invoked = <<"handleDeviceResponse">>

\* the position of a topic in the order of first issue
IssuedAt(topic) == CHOOSE i \in DOMAIN issued : issued[i] = topic

\* the entries whose pattern matches the topic through a wildcard
WildcardEntries(topic) ==
    SelectSeq(messageHandlers,
              LAMBDA e : e.pattern # topic /\ MatchesMqttTopic(e.pattern, topic))

\* C31: when several recorded wildcard patterns match an inbound topic that
\* has no exact handler, the handler that runs is the one of the pattern
\* whose subscribe was issued first, whatever the order of the confirmations
C31_FirstIssuedWildcardWins ==
    [][\A t \in InboundTopics :
          (/\ HandleMessage(t)
           /\ ExactEntries(t) = {}
           /\ Len(WildcardEntries(t)) >= 2)
          => \E i \in DOMAIN messageHandlers :
                /\ MatchesMqttTopic(messageHandlers[i].pattern, t)
                /\ \A j \in DOMAIN messageHandlers :
                       MatchesMqttTopic(messageHandlers[j].pattern, t)
                       => IssuedAt(messageHandlers[i].pattern)
                              <= IssuedAt(messageHandlers[j].pattern)
                /\ dispatched'.invoked = <<messageHandlers[i].handler>>]_vars

----------------------------------------------------------------------------
(* Properties of the connection's life *)

----------------------------------------------------------------------------
(* Properties of the handler of cmd/{deviceId} *)

\* C36: a payload the service itself published on cmd/{boardId} (a command,
\* a registration ack, a device list), when it comes back through the cmd/+
\* subscription, causes no publish, starts no device-list answer and leaves
\* the pending-command map as it was
C36_NoSelfFeedback ==
    [][\A a \in OwnActions :
          OwnCommandEcho("board1", a)
          => /\ published' = published
             /\ publishRejected' = publishRejected
             /\ publishCalls' = publishCalls
             /\ registerAcks' = registerAcks
             /\ listCalls' = listCalls
             /\ pendingCommands' = pendingCommands
             /\ commandObjs' = commandObjs]_vars

\* C36 witness: board1 asked for its device list, the list was published on
\* cmd/board1 and came back to handleDeviceCommand, and no second list
\* followed
C36_Witness ==
    /\ [deviceId |-> "board1", action |-> "device_request"] \in cmdHandled
    /\ [deviceId |-> "board1", action |-> "device_list_response"] \in cmdHandled
    /\ listCalls = <<>>
    /\ publishCalls = 1

----------------------------------------------------------------------------
(* Properties of sendDeviceCommand *)

\* the call that inserted row r
InsertedBy(r) ==
    CHOOSE i \in DOMAIN deviceCommandCalls : deviceCommandCalls[i].commandId = r

\* C38: a row of sendDeviceCommand is 'sent' only if the client confirmed
\* the publish of its call; a call for a device that is unknown or has no
\* command topic threw with nothing inserted or handed to the client; a
\* call whose publish failed threw and its row is still 'pending'
C38_SentOnlyAfterConfirmedPublish ==
    /\ \A r \in DOMAIN commandRows :
          /\ \E i \in DOMAIN deviceCommandCalls : deviceCommandCalls[i].commandId = r
          /\ commandRows[r] = "sent" => deviceCommandCalls[InsertedBy(r)].confirmed
    /\ \A i \in DOMAIN deviceCommandCalls :
          LET call == deviceCommandCalls[i] IN
          /\ (call.pc # "select" /\ call.error # "db"
                 /\ (~DeviceHasRow(call.deviceId)
                        \/ DeviceTopicCmd(call.deviceId) = Null))
             => (call.pc = "threw" /\ call.commandId = 0 /\ ~call.handed)
          /\ call.commandId = 0 => ~call.handed
          /\ call.error \in {"publish", "MQTT client not connected"}
             => (/\ call.pc = "threw"
                 /\ call.commandId \in DOMAIN commandRows
                 /\ commandRows[call.commandId] = "pending")

\* C38 witness: the client confirmed the publish of a call, its UPDATE ran,
\* the call returned and its row is 'sent'
C38_Witness ==
    \E i \in DOMAIN deviceCommandCalls :
        /\ deviceCommandCalls[i].pc = "returned"
        /\ deviceCommandCalls[i].confirmed
        /\ commandRows[deviceCommandCalls[i].commandId] = "sent"

----------------------------------------------------------------------------
(* Properties of the token store *)

\* C32: authMiddleware accepts a token only if its user_tokens row is
\* unrevoked and unexpired; a token is rejected on every request after its
\* logout
C32_RevokedTokenRejected ==
    \A d \in authDecisions : d.accepted => (d.active /\ ~d.afterLogout)

\* C39: once every login and refresh request has completed, a non-admin
\* user has at most one active token for an app_role
C39_OneActiveTokenPerAppRole ==
    (\A i \in DOMAIN authRequests : authRequests[i].pc \in {"done", "failed"})
    => \A u \in UserIds, a \in AppRoles :
          UserRole(u) # "admin"
          => Cardinality({r \in DOMAIN user_tokens :
                             /\ user_tokens[r].user_id = u
                             /\ user_tokens[r].app_role = a
                             /\ RowActive(user_tokens[r])}) <= 1

----------------------------------------------------------------------------
(* Properties of the device endpoints *)

\* C35: a request that answered 408 (waitForAck returned false) left the
\* row of its device as it was before the request (no other request being
\* about the same device)
C35_NoChangeWithoutAck ==
    \A i \in DOMAIN deviceRequests :
        (/\ deviceRequests[i].answer = 408
         /\ \A j \in DOMAIN deviceRequests :
               j # i => deviceRequests[j].deviceId # deviceRequests[i].deviceId)
        => devices[deviceRequests[i].deviceId] = deviceRequests[i].before

----------------------------------------------------------------------------
(* Properties of the topic matcher *)

RECURSIVE LockStep(_, _)
\* MQTT matching by a lock-step walk: '#' accepts whatever is left of the
\* topic, '+' one level, a literal the same level; both end together
LockStep(p, t) ==
    IF p = <<>> THEN t = <<>>
    ELSE IF Head(p) = "#" THEN TRUE
    ELSE IF t = <<>> THEN FALSE
    ELSE /\ Head(p) \in {"+", Head(t)}
         /\ LockStep(Tail(p), Tail(t))

\* C15: for every pattern and topic of up to MaxLevels levels,
\* matchesMqttTopic returns true exactly when the lock-step walk accepts.
C15_MatcherIsLockStep ==
    matchCall # NoCall =>
        matchCall.result = LockStep(matchCall.pattern, matchCall.topic)

\* C15 witness: '#' accepted a topic with no level left for it, after a '+'
\* had consumed a level.
C15_Witness ==
    /\ matchCall.pattern = <<"resp", "+", "#">>
    /\ matchCall.topic = <<"resp", "ESP32_1">>
    /\ matchCall.result

\* the call made was matchesMqttTopic(pattern, topic)
Called(pattern, topic) == matchCall.pattern = pattern /\ matchCall.topic = topic

\* C16 (as claimed): resp/+ accepts resp/ESP32_1 and rejects
\* resp/ESP32_1/extra; cmd/# accepts cmd/x and cmd/x/y and rejects cmd.
C16_BareTopicRejected ==
    /\ Called(<<"resp", "+">>, <<"resp", "ESP32_1">>) => matchCall.result
    /\ Called(<<"resp", "+">>, <<"resp", "ESP32_1", "extra">>) => ~matchCall.result
    /\ Called(<<"cmd", "#">>, <<"cmd", "x">>) => matchCall.result
    /\ Called(<<"cmd", "#">>, <<"cmd", "x", "y">>) => matchCall.result
    /\ Called(<<"cmd", "#">>, <<"cmd">>) => ~matchCall.result

\* C16 (amended): resp/+ accepts resp/ESP32_1 and rejects
\* resp/ESP32_1/extra; cmd/# accepts cmd/x, cmd/x/y and also the bare topic
\* cmd ('#' stands for zero or more levels); it rejects a topic whose first
\* level is not cmd.
C16_BareTopicAccepted ==
    /\ Called(<<"resp", "+">>, <<"resp", "ESP32_1">>) => matchCall.result
    /\ Called(<<"resp", "+">>, <<"resp", "ESP32_1", "extra">>) => ~matchCall.result
    /\ Called(<<"cmd", "#">>, <<"cmd", "x">>) => matchCall.result
    /\ Called(<<"cmd", "#">>, <<"cmd", "x", "y">>) => matchCall.result
    /\ Called(<<"cmd", "#">>, <<"cmd">>) => matchCall.result
    /\ (matchCall.pattern = <<"cmd", "#">> /\ Head(matchCall.topic) # "cmd") =>
          ~matchCall.result

\* C16 witness: matchesMqttTopic('cmd/#', 'cmd') was called and returned true.
C16_Witness == Called(<<"cmd", "#">>, <<"cmd">>) /\ matchCall.result

====
